---- MODULE Spec2Model ----
(***************************************************************************)
(* FIFO realized-P&L engine of torihiki (calculateRealizedPnl and its      *)
(* helpers), modelled as a state machine: one run of the function, with    *)
(* one step for the opening-position loop, one for the sort, one per fill  *)
(* of the sorted array, and one for the return.  Six specifications        *)
(* share the variables:                                                    *)
(*   Spec       one call of calculateRealizedPnl;                          *)
(*   SpecCalls  successive calls, as the application's useMemo makes them  *)
(*              when the fills or the opening positions change;            *)
(*   SpecParse  one call of parseCSV: the search for the header row, one   *)
(*              step per line after it (skipped, rejected by one of the    *)
(*              five checks, or accepted), the sort and the return.        *)
(*   SpecApp    the App component: invocations of handleFilesLoaded, whose *)
(*              file reads may interleave, handleClear, and changes of the *)
(*              filters and of the opening positions;                      *)
(*   SpecView   the App component once a file is loaded: the filters and   *)
(*              the opening positions change, and with them the fills and  *)
(*              the result that the useMemo calls derive;                  *)
(*   SpecStats  the aggregation functions computeSummary,                  *)
(*              computeSymbolSummaries and getCumulativePnlSeries, each    *)
(*              called once on one list of trades.                         *)
(* The part a specification does not run stays at its idle value.          *)
(*                                                                         *)
(* The text given to parseCSV is a sequence of characters.  The characters *)
(* of the Japanese column names and trade types are written by their       *)
(* readings ("yaku", "jou", "nichi" for the three characters of the        *)
(* trade-date column), one string per character, so that splitting,        *)
(* trimming and comparing work on them as on any other character.          *)
(*                                                                         *)
(* Representation of JavaScript values:                                    *)
(*   - strings that are concatenated (symbol code, account type, key) are  *)
(*     TLA+ strings; trade dates, which are compared, are sequences of     *)
(*     one-character strings;                                              *)
(*   - `number | null | undefined` is a record [k, v] with k one of        *)
(*     "number", "null", "undefined";  `string | undefined` likewise;      *)
(*   - numbers are integers (quantities, prices and amounts of the model   *)
(*     are whole), a quotient is kept as the exact fraction num/den.       *)
(*                                                                         *)
(* History kept beside the program state: every lot carries in `src` the   *)
(* opening position <<"op", n>> or the fill <<"fill", n>> (n its index in  *)
(* the sorted array) it was made from, and matchLog records, per SELL, the *)
(* lot map before and after it and the matches of its loop.  Neither is    *)
(* read by the engine.                                                     *)
(*                                                                         *)
(* The comparator given to sort is not a consistent order when OTHER fills *)
(* are present (OTHER equals BUY and SELL, BUY precedes SELL), and the     *)
(* result of Array.prototype.sort is then left to the implementation.  The *)
(* model follows the algorithm of V8 (Node, which runs the tests, and      *)
(* Chromium): for arrays shorter than 64 elements, detection of the        *)
(* leading run followed by binary insertion.  On consistent input this is  *)
(* the stable sort every implementation gives.                             *)
(***************************************************************************)
EXTENDS Integers, Sequences, FiniteSets, TLC

VARIABLES
    fills,              \* argument: NormalizedFill[]
    openingPositions,   \* argument: OpeningPosition[]
    pc,                 \* position in calculateRealizedPnl
    lots,               \* Map<PositionKey, FifoLot[]>
    sorted,             \* the sorted copy of fills
    idx,                \* index (1-based) of the next fill of `sorted`
    trades,             \* RealizedTrade[] built so far
    missingCostMap,     \* Map of missing-cost entries, in insertion order
    result,             \* the returned { trades, missingCostSymbols }
    matchLog,           \* history: one record per processed SELL, with the lot
                        \* map before and after it and the matches it made
    calls,              \* history: arguments and returned value of every call
                        \* of calculateRealizedPnl that has returned
    text,               \* argument of parseCSV: the characters of the file
    parser,             \* position and local variables of parseCSV
    app,                \* state of the App component: fills, parseResults
    loads,              \* the invocations of handleFilesLoaded, each with its
                        \* files, its position and its local variables
    loadLog,            \* history: the files whose fills were added to the
                        \* state and the clears, in the order they took effect
    stats               \* the trades handed to the aggregation functions and
                        \* what each of them returned

engineVars == <<fills, openingPositions, pc, lots, sorted, idx, trades,
                missingCostMap, result, matchLog, calls>>

parseVars == <<text, parser>>

appVars == <<app, loads, loadLog>>

statVars == <<stats>>

vars == <<engineVars, parseVars, appVars, statVars>>

-----------------------------------------------------------------------------
(* Bounds of the model *)

MaxFills == 3

MaxOpen == 2

MaxCalls == 3

-----------------------------------------------------------------------------
(* JavaScript values *)

Num(n) == [k |-> "number", v |-> n]

Null == [k |-> "null", v |-> 0]

Undefined == [k |-> "undefined", v |-> 0]

Str(s) == [k |-> "string", v |-> s]

NoStr == [k |-> "undefined", v |-> ""]

\* x ?? d, for x a tagged value and d a raw default
Coalesce(x, d) == IF x.k \in {"null", "undefined"} THEN d ELSE x.v

\* x ?? null, as a tagged value
OrNull(x) == IF x.k \in {"null", "undefined"} THEN Null ELSE x

\* a quotient n / d of two numbers, kept exact
Quot(n, d) == [k |-> "number", num |-> n, den |-> d]

NullQuot == [k |-> "null", num |-> 0, den |-> 1]

Min(a, b) == IF a < b THEN a ELSE b

RECURSIVE Reverse(_)
Reverse(s) == IF s = <<>> THEN <<>> ELSE Reverse(Tail(s)) \o <<Head(s)>>

-----------------------------------------------------------------------------
(* String comparison of trade dates *)

Collation == <<"-", "0", "1", "2", "3", "4", "5", "6", "7", "8", "9">>

CharRank(c) == CHOOSE r \in 1..Len(Collation) : Collation[r] = c

RECURSIVE localeCompare(_, _)
localeCompare(a, b) ==
    IF a = <<>> /\ b = <<>> THEN 0
    ELSE IF a = <<>> THEN -1
    ELSE IF b = <<>> THEN 1
    ELSE IF CharRank(Head(a)) < CharRank(Head(b)) THEN -1
    ELSE IF CharRank(Head(a)) > CharRank(Head(b)) THEN 1
    ELSE localeCompare(Tail(a), Tail(b))

-----------------------------------------------------------------------------
(* makeKey *)

\* a key that leaves the account type out
makeKeySymbolOnly(symbolCode, accountType) == symbolCode \o "::"

\* a key that writes an absent account type out instead of defaulting it
makeKeyAbsentApart(symbolCode, accountType) ==
    symbolCode \o "::" \o (IF accountType.k = "undefined" THEN "undefined" ELSE accountType.v)

makeKey(symbolCode, accountType) == symbolCode \o "::" \o Coalesce(accountType, "")

\* lots.get(key) ?? []
LotsGet(m, key) == IF key \in DOMAIN m THEN m[key] ELSE <<>>

\* lots.set(key, q)
LotsSet(m, key, q) == [x \in (DOMAIN m) \cup {key} |-> IF x = key THEN q ELSE m[x]]

EmptyMap == [x \in {} |-> <<>>]

\* the map a previous call left behind
LotsOfPreviousCall == lots

\* const lots = new Map<PositionKey, FifoLot[]>()
NewLots == EmptyMap

-----------------------------------------------------------------------------
(* Initialization with the opening positions *)

OpeningLot(op, n) == [qty |-> op.qty, price |-> op.avgCost, fees |-> Num(0),
                      src |-> <<"op", n>>]

\* a seeding in which a later opening position of a key replaces the earlier ones
RECURSIVE SeedLotsOverwrite(_, _, _)
SeedLotsOverwrite(ops, n, m) ==
    IF n > Len(ops) THEN m
    ELSE SeedLotsOverwrite(ops, n + 1,
             LotsSet(m, makeKey(ops[n].symbolCode, Str(ops[n].accountType)),
                     <<OpeningLot(ops[n], n)>>))

\* an opening position put at the back of the queue
pushLot(existing, lot) == Append(existing, lot)

\* existing.unshift(lot)
unshiftLot(existing, lot) == <<lot>> \o existing

RECURSIVE SeedLots(_, _, _)
SeedLots(ops, n, m) ==
    IF n > Len(ops) THEN m
    ELSE LET key == makeKey(ops[n].symbolCode, Str(ops[n].accountType))
             existing == LotsGet(m, key)
         IN SeedLots(ops, n + 1, LotsSet(m, key, unshiftLot(existing, OpeningLot(ops[n], n))))

-----------------------------------------------------------------------------
(* The sort of the fills: comparator and Array.prototype.sort *)

\* a comparator that orders by side only
compareFnSideOnly(a, b) ==
    IF a.side = "BUY" /\ b.side = "SELL" THEN -1
    ELSE IF a.side = "SELL" /\ b.side = "BUY" THEN 1
    ELSE 0

compareFn(a, b) ==
    LET dateCmp == localeCompare(a.tradeDate, b.tradeDate)
    IN IF dateCmp # 0 THEN dateCmp
       ELSE IF a.side = "BUY" /\ b.side = "SELL" THEN -1
       ELSE IF a.side = "SELL" /\ b.side = "BUY" THEN 1
       ELSE 0

\* Length of the run that starts the array: elements are added while they keep
\* the direction (strictly descending, or non-descending) of the first two.
RECURSIVE RunLength(_, _, _)
RunLength(a, i, desc) ==
    IF i > Len(a) THEN i - 1
    ELSE LET order == compareFn(a[i], a[i - 1])
         IN IF desc
            THEN (IF order >= 0 THEN i - 1 ELSE RunLength(a, i + 1, desc))
            ELSE (IF order < 0 THEN i - 1 ELSE RunLength(a, i + 1, desc))

\* Position (0-based) at which pivot is inserted in the sorted prefix a[1..right]
RECURSIVE BinarySearch(_, _, _, _)
BinarySearch(a, pivot, left, right) ==
    IF left >= right THEN left
    ELSE LET mid == left + ((right - left) \div 2)
         IN IF compareFn(pivot, a[mid + 1]) < 0
            THEN BinarySearch(a, pivot, left, mid)
            ELSE BinarySearch(a, pivot, mid + 1, right)

RECURSIVE BinaryInsertionSort(_, _)
BinaryInsertionSort(a, start) ==
    IF start >= Len(a) THEN a
    ELSE LET pivot == a[start + 1]
             left == BinarySearch(a, pivot, 0, start)
         IN BinaryInsertionSort(
                SubSeq(a, 1, left) \o <<pivot>> \o SubSeq(a, left + 1, start)
                    \o SubSeq(a, start + 2, Len(a)),
                start + 1)

\* [...fills].sort(compareFn) for an array shorter than a minimum run: the
\* leading run is found (and reversed when descending), the rest is inserted
\* by binary insertion.
ArraySort(a) ==
    IF Len(a) < 2 THEN a
    ELSE LET desc == compareFn(a[2], a[1]) < 0
             n == RunLength(a, 3, desc)
             work == IF desc
                     THEN Reverse(SubSeq(a, 1, n)) \o SubSeq(a, n + 1, Len(a))
                     ELSE a
         IN BinaryInsertionSort(work, n)

\* fills.sort(...): a sort of the argument array itself
SortInPlace(a) == [arg |-> ArraySort(a), copy |-> ArraySort(a)]

\* [...fills].sort(...): the copy is sorted, the argument array stays as it is
SortCopy(a) == [arg |-> a, copy |-> ArraySort(a)]

-----------------------------------------------------------------------------
(* Per-fill processing *)

KeyOfFill(fill) == makeKey(fill.symbolCode, fill.accountType)

BuyLot(fill, n) == [qty |-> fill.qty, price |-> fill.price, fees |-> OrNull(fill.fees),
                    src |-> <<"fill", n>>]

\* a lot put at the front of the queue
QueueBuyFront(existing, lot) == <<lot>> \o existing

\* existing.push(lot)
QueueBuy(existing, lot) == Append(existing, lot)

\* a match that forgets the lot's quantity
MatchQtyWhole(remainingQty, lot) == remainingQty

\* const matchQty = Math.min(remainingQty, lot.qty)
MatchQty(remainingQty, lot) == Min(remainingQty, lot.qty)

\* the cost of a match with the fees of the lot added
lotCostWithFees(lot, matchQty) == lot.price * matchQty + Coalesce(lot.fees, 0)

\* lot.price * matchQty
lotCost(lot, matchQty) == lot.price * matchQty

\* The while loop of a SELL: st = [lots, remainingQty, totalBuyCost, taken],
\* taken being the history of the matches made ([src, qty, price] each).
\* a match that leaves the lot as large as it was
lotUntouched(lot, matchQty) == lot.qty

\* lot.qty -= matchQty
lotRemainder(lot, matchQty) == lot.qty - matchQty

\* a loop that gives up after its first lot
loopsOnFirstLotOnly(st) == st.remainingQty > 0 /\ Len(st.lots) > 0 /\ st.taken = <<>>

\* while (remainingQty > 0 && existingLots.length > 0)
loops(st) == st.remainingQty > 0 /\ Len(st.lots) > 0

RECURSIVE MatchLoop(_)
MatchLoop(st) ==
    IF ~loops(st) THEN st
    ELSE LET lot == st.lots[1]
             matchQty == MatchQty(st.remainingQty, lot)
             lotQty == lotRemainder(lot, matchQty)
         IN MatchLoop([lots |-> IF lotQty <= 0
                                THEN Tail(st.lots)
                                ELSE <<[lot EXCEPT !.qty = lotQty]>> \o Tail(st.lots),
                       remainingQty |-> st.remainingQty - matchQty,
                       totalBuyCost |-> st.totalBuyCost + lotCost(lot, matchQty),
                       taken |-> Append(st.taken, [src |-> lot.src, qty |-> matchQty,
                                                   price |-> lot.price])])

\* Position of the entry of mkKey in the missing-cost map, 0 when absent
MissingIndex(m, mkKey) ==
    IF \E j \in 1..Len(m) : m[j].key = mkKey
    THEN CHOOSE j \in 1..Len(m) : m[j].key = mkKey
    ELSE 0

\* an update that adds the whole quantity of the SELL
RecordMissingWholeQty(m, fill, remainingQty) ==
    LET mkKey == fill.symbolCode \o "::" \o Coalesce(fill.accountType, "")
        j == MissingIndex(m, mkKey)
    IN IF j > 0
       THEN [m EXCEPT ![j].shortQty = @ + fill.qty]
       ELSE Append(m, [key |-> mkKey,
                       symbolCode |-> fill.symbolCode,
                       symbolName |-> fill.symbolName,
                       shortQty |-> fill.qty,
                       accountType |-> Coalesce(fill.accountType, "")])

\* an update that keeps the last shortfall only
RecordMissingLast(m, fill, remainingQty) ==
    LET mkKey == fill.symbolCode \o "::" \o Coalesce(fill.accountType, "")
        j == MissingIndex(m, mkKey)
    IN IF j > 0
       THEN [m EXCEPT ![j].shortQty = remainingQty]
       ELSE Append(m, [key |-> mkKey,
                       symbolCode |-> fill.symbolCode,
                       symbolName |-> fill.symbolName,
                       shortQty |-> remainingQty,
                       accountType |-> Coalesce(fill.accountType, "")])

\* The update of missingCostMap for a SELL left with remainingQty > 0
RecordMissing(m, fill, remainingQty) ==
    LET mkKey == fill.symbolCode \o "::" \o Coalesce(fill.accountType, "")
        j == MissingIndex(m, mkKey)
    IN IF j > 0
       THEN [m EXCEPT ![j].shortQty = @ + remainingQty]
       ELSE Append(m, [key |-> mkKey,
                       symbolCode |-> fill.symbolCode,
                       symbolName |-> fill.symbolName,
                       shortQty |-> remainingQty,
                       accountType |-> Coalesce(fill.accountType, "")])

\* a flag that looks at the fees only
FeesEstimatedFeesOnly(fill) == fill.fees.k = "null"

\* const feesEstimated = fill.fees === null || fill.tax === null
FeesEstimated(fill) == fill.fees.k = "null" \/ fill.tax.k = "null"

\* an average taken over the sold quantity
BuyPriceAvgOverSold(fill, st) ==
    IF fill.qty - st.remainingQty > 0 THEN Quot(st.totalBuyCost, fill.qty) ELSE NullQuot

\* const buyPriceAvg = matchedQty > 0 ? totalBuyCost / matchedQty : null
BuyPriceAvg(fill, st) ==
    LET matchedQty == fill.qty - st.remainingQty
    IN IF matchedQty > 0 THEN Quot(st.totalBuyCost, matchedQty) ELSE NullQuot

\* a P&L that an unknown fee or tax blocks
RealizedPnlFeeBlocked(fill, st) ==
    IF st.remainingQty > 0
    THEN [realizedPnl |-> Null, reasonIfNull |-> Str("UNKNOWN_COST")]
    ELSE IF FeesEstimated(fill)
    THEN [realizedPnl |-> Null, reasonIfNull |-> NoStr]
    ELSE [realizedPnl |-> Num(fill.price * fill.qty - st.totalBuyCost
                                - (Coalesce(fill.fees, 0) + Coalesce(fill.tax, 0))),
          reasonIfNull |-> NoStr]

\* a P&L that leaves the tax out
RealizedPnlNoTax(fill, st) ==
    IF st.remainingQty > 0
    THEN [realizedPnl |-> Null, reasonIfNull |-> Str("UNKNOWN_COST")]
    ELSE [realizedPnl |-> Num(fill.price * fill.qty - st.totalBuyCost
                                - Coalesce(fill.fees, 0)),
          reasonIfNull |-> NoStr]

\* realizedPnl and reasonIfNull of a SELL whose matching ended in state st
RealizedPnl(fill, st) ==
    LET hasCostUnknown == st.remainingQty > 0
        sellRevenue == fill.price * fill.qty
        sellFees == Coalesce(fill.fees, 0) + Coalesce(fill.tax, 0)
    IN IF hasCostUnknown
       THEN [realizedPnl |-> Null, reasonIfNull |-> Str("UNKNOWN_COST")]
       ELSE [realizedPnl |-> Num(sellRevenue - st.totalBuyCost - sellFees),
             reasonIfNull |-> NoStr]

\* The RealizedTrade pushed for a SELL whose matching ended in state st
MakeTrade(fill, st) ==
    [tradeDate |-> fill.tradeDate,
     symbolCode |-> fill.symbolCode,
     symbolName |-> fill.symbolName,
     side |-> "SELL",
     qty |-> fill.qty,
     sellPrice |-> fill.price,
     buyPriceAvg |-> BuyPriceAvg(fill, st),
     fees |-> OrNull(fill.fees),
     tax |-> OrNull(fill.tax),
     realizedPnl |-> RealizedPnl(fill, st).realizedPnl,
     reasonIfNull |-> RealizedPnl(fill, st).reasonIfNull,
     feesEstimated |-> FeesEstimated(fill),
     accountType |-> fill.accountType]

-----------------------------------------------------------------------------
(* Actions: one run of calculateRealizedPnl *)

\* const lots = new Map(); for (const op of openingPositions) { ... unshift ... };
\* const trades = []; const missingCostMap = new Map()
SeedOpening ==
    /\ pc = "start"
    /\ lots' = SeedLots(openingPositions, 1, NewLots)
    /\ trades' = <<>>
    /\ missingCostMap' = <<>>
    /\ matchLog' = <<>>
    /\ pc' = "seeded"
    /\ UNCHANGED <<fills, openingPositions, sorted, idx, result, calls>>
    /\ UNCHANGED <<parseVars, appVars, statVars>>

\* const sorted = [...fills].sort(...)
SortFills ==
    /\ pc = "seeded"
    /\ sorted' = SortCopy(fills).copy
    /\ fills' = SortCopy(fills).arg
    /\ idx' = 1
    /\ pc' = "loop"
    /\ UNCHANGED <<openingPositions, lots, trades, missingCostMap, result,
                   matchLog, calls>>
    /\ UNCHANGED <<parseVars, appVars, statVars>>

ProcessBuy ==
    /\ pc = "loop"
    /\ idx <= Len(sorted)
    /\ sorted[idx].side = "BUY"
    /\ LET fill == sorted[idx]
           key == KeyOfFill(fill)
       IN lots' = LotsSet(lots, key, QueueBuy(LotsGet(lots, key), BuyLot(fill, idx)))
    /\ idx' = idx + 1
    /\ UNCHANGED <<fills, openingPositions, pc, sorted, trades, missingCostMap,
                   result, matchLog, calls>>
    /\ UNCHANGED <<parseVars, appVars, statVars>>

ProcessSell ==
    /\ pc = "loop"
    /\ idx <= Len(sorted)
    /\ sorted[idx].side = "SELL"
    /\ LET fill == sorted[idx]
           key == KeyOfFill(fill)
           existingLots == LotsGet(lots, key)
           st == MatchLoop([lots |-> existingLots, remainingQty |-> fill.qty,
                            totalBuyCost |-> 0, taken |-> <<>>])
       IN /\ lots' = LotsSet(lots, key, st.lots)
          /\ missingCostMap' = IF st.remainingQty > 0
                               THEN RecordMissing(missingCostMap, fill, st.remainingQty)
                               ELSE missingCostMap
          /\ trades' = Append(trades, MakeTrade(fill, st))
          /\ matchLog' = Append(matchLog, [at |-> idx, key |-> key,
                                           mapBefore |-> lots,
                                           mapAfter |-> LotsSet(lots, key, st.lots),
                                           taken |-> st.taken])
    /\ idx' = idx + 1
    /\ UNCHANGED <<fills, openingPositions, pc, sorted, result, calls>>
    /\ UNCHANGED <<parseVars, appVars, statVars>>

\* OTHER side is ignored for P&L
ProcessOther ==
    /\ pc = "loop"
    /\ idx <= Len(sorted)
    /\ sorted[idx].side \notin {"BUY", "SELL"}
    /\ idx' = idx + 1
    /\ UNCHANGED <<fills, openingPositions, pc, lots, sorted, trades, missingCostMap,
                   result, matchLog, calls>>
    /\ UNCHANGED <<parseVars, appVars, statVars>>

MissingValue(e) == [symbolCode |-> e.symbolCode, symbolName |-> e.symbolName,
                    shortQty |-> e.shortQty, accountType |-> e.accountType]

\* return { trades, missingCostSymbols: Array.from(missingCostMap.values()) }
Return ==
    /\ pc = "loop"
    /\ idx > Len(sorted)
    /\ result' = [trades |-> trades,
                  missingCostSymbols |-> [j \in 1..Len(missingCostMap) |->
                                             MissingValue(missingCostMap[j])]]
    /\ calls' = Append(calls, [fills |-> fills, openingPositions |-> openingPositions,
                               result |-> result'])
    /\ pc' = "done"
    /\ UNCHANGED <<fills, openingPositions, lots, sorted, idx, trades, missingCostMap,
                   matchLog>>
    /\ UNCHANGED <<parseVars, appVars, statVars>>

Next ==
    \/ SeedOpening
    \/ SortFills
    \/ ProcessBuy
    \/ ProcessSell
    \/ ProcessOther
    \/ Return

-----------------------------------------------------------------------------
(* The function as a whole: the value a call returns for given arguments,   *)
(* s = [lots, trades, missingCostMap] being the locals the loop works on.   *)

\* the body of the loop for the n-th fill of the sorted copy
FillStep(s, fill, n) ==
    LET key == KeyOfFill(fill)
    IN IF fill.side = "BUY"
       THEN [s EXCEPT !.lots = LotsSet(s.lots, key,
                                       QueueBuy(LotsGet(s.lots, key), BuyLot(fill, n)))]
       ELSE IF fill.side = "SELL"
       THEN LET st == MatchLoop([lots |-> LotsGet(s.lots, key),
                                 remainingQty |-> fill.qty,
                                 totalBuyCost |-> 0, taken |-> <<>>])
            IN [lots |-> LotsSet(s.lots, key, st.lots),
                trades |-> Append(s.trades, MakeTrade(fill, st)),
                missingCostMap |-> IF st.remainingQty > 0
                                   THEN RecordMissing(s.missingCostMap, fill,
                                                      st.remainingQty)
                                   ELSE s.missingCostMap]
       ELSE s

RECURSIVE FillLoop(_, _, _)
FillLoop(a, n, s) ==
    IF n > Len(a) THEN s ELSE FillLoop(a, n + 1, FillStep(s, a[n], n))

calculateRealizedPnl(f, ops) ==
    LET s == FillLoop(SortCopy(f).copy, 1,
                      [lots |-> SeedLots(ops, 1, NewLots), trades |-> <<>>,
                       missingCostMap |-> <<>>])
    IN [trades |-> s.trades,
        missingCostSymbols |-> [j \in 1..Len(s.missingCostMap) |->
                                   MissingValue(s.missingCostMap[j])]]

\* the state of the parser while parseCSV is not running
NotParsing == [pc |-> "idle"]

\* useState<FilterState>({ dateFrom: "", dateTo: "", accountType: "", ... })
NoFilters == [dateFrom |-> <<>>, dateTo |-> <<>>, accountType |-> "",
              symbolSearch |-> "", includeUncalculable |-> TRUE]

\* useState([]) for fills, parseResults and openingPositions, the filters all
\* empty, and no load under way
InitialApp == [fills |-> <<>>, parseResults |-> <<>>, openingPositions |-> <<>>,
               filters |-> NoFilters]

NotComputed == [k |-> "none"]

Computed(value) == [k |-> "value", v |-> value]

NoStats == [trades |-> <<>>, summary |-> NotComputed,
            symbolSummaries |-> NotComputed, series |-> NotComputed]

AppAtRest == app = InitialApp /\ loads = <<>> /\ loadLog = <<>> /\ stats = NoStats

-----------------------------------------------------------------------------
(* The arguments the run is explored for *)

D1 == <<"2", "0", "2", "4", "-", "0", "1", "-", "1", "0">>

D2 == <<"2", "0", "2", "4", "-", "0", "1", "-", "1", "5">>

D11 == <<"2", "0", "2", "4", "-", "0", "1", "-", "1", "1">>

Fill(date, sym, acct, side, qty, price, fees, tax) ==
    [tradeDate |-> date, symbolName |-> "N", symbolCode |-> sym, side |-> side,
     qty |-> qty, price |-> price, fees |-> fees, tax |-> tax, accountType |-> acct]

Opening(sym, acct, qty, avgCost) ==
    [symbolCode |-> sym, symbolName |-> "N", qty |-> qty, avgCost |-> avgCost,
     accountType |-> acct]

SeqsUpTo(S, n) == UNION {[1..k -> S] : k \in 0..n}

\* one key; dates, sides and quantities vary, the buy price follows the date
OrderFills ==
    {Fill(d, "1", Str("A"), "BUY", q, IF d = D1 THEN 1 ELSE 2, Num(0), Num(0)) :
        d \in {D1, D2}, q \in {1, 2}}
    \cup {Fill(d, "1", Str("A"), "SELL", q, 3, Num(0), Num(0)) : d \in {D1, D2}, q \in {1, 2}}
    \cup {Fill(d, "1", Str("A"), "OTHER", 1, 3, Num(0), Num(0)) : d \in {D1, D2}}

\* one key; the fees and the tax of the SELLs vary
FeeFills ==
    {Fill(D1, "1", Str("A"), "BUY", 2, 1, Null, Null)}
    \cup {Fill(D2, "1", Str("A"), "SELL", q, 3, ft[1], ft[2]) :
            q \in {1, 2},
            ft \in {<<Num(1), Num(2)>>, <<Null, Num(2)>>, <<Num(1), Null>>,
                    <<Null, Null>>, <<Undefined, Undefined>>}}

\* symbol codes and account types vary, on one day
KeyFills ==
    {Fill(D1, sym, acct, side, 1, IF side = "BUY" THEN 1 ELSE 3, Num(0), Num(0)) :
        sym \in {"1", "1::"}, acct \in {NoStr, Str("::")}, side \in {"BUY", "SELL"}}

\* fills of one key, run with opening positions of that key and of another one
SeededFills ==
    {Fill(d, "1", Str("A"), "BUY", 1, 1, Num(0), Num(0)) : d \in {D1, D2}}
    \cup {Fill(d, "1", Str("A"), "SELL", q, 5, Num(0), Num(0)) : d \in {D1, D2}, q \in {2, 3}}

\* the fills of the engine's unit tests
TestFills ==
    {Fill(D1, "1234", Str("T"), "BUY", 100, 1000, Num(100), Num(0)),
     Fill(D1, "1234", Str("T"), "BUY", 100, 1000, Num(0), Num(0)),
     Fill(D11, "1234", Str("T"), "BUY", 100, 1500, Num(0), Num(0)),
     Fill(D2, "1234", Str("T"), "SELL", 150, 1300, Num(0), Num(0)),
     Fill(D2, "1234", Str("T"), "SELL", 100, 1200, Num(100), Num(200))}

TestOpenings == {Opening("1234", "T", 100, 1000)}

\* one symbol; the account type is absent, empty or "A", also on the opening
\* positions (where it is a string)
NoAccountFills ==
    {Fill(D1, "1", acct, side, 1, IF side = "BUY" THEN 1 ELSE 3, Num(0), Num(0)) :
        acct \in {NoStr, Str(""), Str("A")}, side \in {"BUY", "SELL"}}

NoAccountOpenings == {<<>>, <<Opening("1", "A", 1, 2), Opening("1", "", 1, 2)>>}

Openings ==
    {Opening("1", "A", 1, 3), Opening("1", "A", 2, 4), Opening("1", "B", 1, 4)}

InitArgs ==
    \/ fills \in SeqsUpTo(OrderFills, MaxFills) /\ openingPositions = <<>>
    \/ fills \in SeqsUpTo(FeeFills, MaxFills) /\ openingPositions = <<>>
    \/ fills \in SeqsUpTo(KeyFills, MaxFills) /\ openingPositions = <<>>
    \/ fills \in SeqsUpTo(SeededFills, MaxFills - 1)
       /\ openingPositions \in SeqsUpTo(Openings, MaxOpen)
    \/ fills \in SeqsUpTo(TestFills, MaxFills)
       /\ openingPositions \in SeqsUpTo(TestOpenings, 1)
    \/ fills \in SeqsUpTo(NoAccountFills, MaxFills)
       /\ openingPositions \in NoAccountOpenings

Init ==
    /\ InitArgs
    /\ pc = "start"
    /\ lots = EmptyMap
    /\ sorted = <<>>
    /\ idx = 1
    /\ trades = <<>>
    /\ missingCostMap = <<>>
    /\ result = [trades |-> <<>>, missingCostSymbols |-> <<>>]
    /\ matchLog = <<>>
    /\ calls = <<>>
    /\ text = <<>>
    /\ parser = NotParsing
    /\ AppAtRest

Spec == Init /\ [][Next]_vars

-----------------------------------------------------------------------------
(* Calls one after another: when a call has returned, the application calls *)
(* the function again with the arguments of the moment.  The locals of the   *)
(* call that returned stay as they were until the next call makes its own.   *)

CallArgs ==
    LET buy == Fill(D1, "1", Str("A"), "BUY", 1, 1, Num(0), Num(0))
        sell == Fill(D2, "1", Str("A"), "SELL", 1, 3, Num(0), Num(0))
        other == Fill(D1, "1", Str("A"), "OTHER", 1, 3, Num(0), Num(0))
        op == Opening("1", "A", 1, 2)
    IN {[fills |-> <<sell>>, openingPositions |-> <<>>],
        [fills |-> <<buy>>, openingPositions |-> <<>>],
        [fills |-> <<sell, buy>>, openingPositions |-> <<>>],
        [fills |-> <<other, sell>>, openingPositions |-> <<>>],
        [fills |-> <<sell>>, openingPositions |-> <<op>>],
        [fills |-> <<>>, openingPositions |-> <<op>>]}

\* calculateRealizedPnl(filteredFills, openingPositions), called again
Call ==
    /\ pc = "done"
    /\ Len(calls) < MaxCalls
    /\ \E a \in CallArgs :
          /\ fills' = a.fills
          /\ openingPositions' = a.openingPositions
    /\ pc' = "start"
    /\ UNCHANGED <<lots, sorted, idx, trades, missingCostMap, result, matchLog, calls>>
    /\ UNCHANGED <<parseVars, appVars, statVars>>

InitCalls ==
    /\ \E a \in CallArgs :
          /\ fills = a.fills
          /\ openingPositions = a.openingPositions
    /\ pc = "start"
    /\ lots = EmptyMap
    /\ sorted = <<>>
    /\ idx = 1
    /\ trades = <<>>
    /\ missingCostMap = <<>>
    /\ result = [trades |-> <<>>, missingCostSymbols |-> <<>>]
    /\ matchLog = <<>>
    /\ calls = <<>>
    /\ text = <<>>
    /\ parser = NotParsing
    /\ AppAtRest

NextCalls ==
    \/ Next
    \/ Call

SpecCalls == InitCalls /\ [][NextCalls]_vars

-----------------------------------------------------------------------------
(* The CSV parser (parser.ts).  A text, a line and a field are sequences of *)
(* characters, each character a string: an ASCII character stands for       *)
(* itself, "LF" and "CR" for the line feed and the carriage return, and a   *)
(* Japanese character is written by a reading of it ("nen" for the year     *)
(* sign, "kai" for the sign of buying, ...).  The fields market,            *)
(* deliveryDate, deliveryAmount and raw of a fill, which nothing modelled   *)
(* reads, are left out; `line` is history: the 1-based number of the line   *)
(* the fill was made from.  An error message is kept as the line number it   *)
(* carries, the check that wrote it and the value it quotes.                 *)

Chars(str) == [n \in 1..Len(str) |-> SubSeq(str, n, n)]

IsSpace(c) == c \in {" ", "CR", "LF"}

RECURSIVE trimStart(_)
trimStart(str) ==
    IF str # <<>> /\ IsSpace(Head(str)) THEN trimStart(Tail(str)) ELSE str

RECURSIVE trimEnd(_)
trimEnd(str) ==
    IF str # <<>> /\ IsSpace(str[Len(str)])
    THEN trimEnd(SubSeq(str, 1, Len(str) - 1))
    ELSE str

\* String.prototype.trim
trim(str) == trimEnd(trimStart(str))

\* text.split(/\r?\n/): the k-th line lies between the (k-1)-th and the k-th
\* line feed, without the carriage return that stands before a line feed
split(t) ==
    LET feeds == {n \in 1..Len(t) : t[n] = "LF"}
        feed(k) == IF k = 0 THEN 0
                   ELSE IF k > Cardinality(feeds) THEN Len(t) + 1
                   ELSE CHOOSE n \in feeds : Cardinality({m \in feeds : m < n}) = k - 1
        last(k) == IF /\ feed(k) <= Len(t)
                      /\ feed(k) - 1 > feed(k - 1)
                      /\ t[feed(k) - 1] = "CR"
                   THEN feed(k) - 2
                   ELSE feed(k) - 1
    IN [k \in 1..(Cardinality(feeds) + 1) |-> SubSeq(t, feed(k - 1) + 1, last(k))]

\* The loop of parseCSVLine from position i (1-based)
RECURSIVE parseCSVLineFrom(_, _, _, _, _)
parseCSVLineFrom(line, i, current, inQuotes, res) ==
    IF i > Len(line) THEN Append(res, trim(current))
    ELSE LET ch == line[i]
         IN IF inQuotes
            THEN IF ch = "\""
                 THEN IF i + 1 <= Len(line) /\ line[i + 1] = "\""
                      THEN parseCSVLineFrom(line, i + 2, Append(current, "\""), TRUE, res)
                      ELSE parseCSVLineFrom(line, i + 1, current, FALSE, res)
                 ELSE parseCSVLineFrom(line, i + 1, Append(current, ch), TRUE, res)
            ELSE IF ch = "\""
                 THEN parseCSVLineFrom(line, i + 1, current, TRUE, res)
                 ELSE IF ch = ","
                 THEN parseCSVLineFrom(line, i + 1, <<>>, FALSE,
                                       Append(res, trim(current)))
                 ELSE parseCSVLineFrom(line, i + 1, Append(current, ch), FALSE, res)

\* a split at every comma, quotes kept as they are
RECURSIVE splitAtEveryCommaFrom(_, _, _, _)
splitAtEveryCommaFrom(line, i, current, res) ==
    IF i > Len(line) THEN Append(res, trim(current))
    ELSE IF line[i] = ","
    THEN splitAtEveryCommaFrom(line, i + 1, <<>>, Append(res, trim(current)))
    ELSE splitAtEveryCommaFrom(line, i + 1, Append(current, line[i]), res)

splitAtEveryComma(line) == splitAtEveryCommaFrom(line, 1, <<>>, <<>>)

parseCSVLine(line) == parseCSVLineFrom(line, 1, <<>>, FALSE, <<>>)

\* The names of the columns: yakujoubi (trade date), meigara koodo (symbol
\* code), yakujou suuryou (quantity), yakujou tanka (price), torihiki (trade),
\* tesuuryou/shokeihi tou (fees), zeigaku (tax), azukari (account), meigara
\* (symbol name)
TradeDateCol == <<"yaku", "jou", "nichi">>

SymbolCodeCol == <<"mei", "gara", "ko", "chouon", "do">>

QtyCol == <<"yaku", "jou", "suu", "ryou">>

PriceCol == <<"yaku", "jou", "tan", "ka">>

TradeCol == <<"tori", "hiki">>

FeesCol == <<"te", "suu", "ryo", "/", "sho", "kei", "hi", "tou">>

TaxCol == <<"zei", "gaku">>

AccountCol == <<"azu", "ri">>

NameCol == <<"mei", "gara">>

required == {TradeDateCol, SymbolCodeCol, QtyCol, PriceCol}

includes(arr, x) == \E n \in 1..Len(arr) : arr[n] = x

\* a test that is content with one of the required names
isHeaderRowSome(fields) == \E h \in required : includes(fields, h)

\* a header test that wants the names in the leading columns, in the order of
\* the list
isHeaderRowInOrder(fields) ==
    /\ Len(fields) >= 4
    /\ <<fields[1], fields[2], fields[3], fields[4]>>
           = <<TradeDateCol, SymbolCodeCol, QtyCol, PriceCol>>

isHeaderRow(fields) == \A h \in required : includes(fields, h)

IsDigit(c) == c \in {"0", "1", "2", "3", "4", "5", "6", "7", "8", "9"}

\* Length of the run of digits that starts str
RECURSIVE DigitRun(_)
DigitRun(str) ==
    IF str # <<>> /\ IsDigit(Head(str)) THEN 1 + DigitRun(Tail(str)) ELSE 0

\* parseInt(digits, 10) of a run of digits
RECURSIVE parseInt(_, _)
parseInt(digits, acc) ==
    IF digits = <<>> THEN acc
    ELSE parseInt(Tail(digits), 10 * acc + (CharRank(Head(digits)) - 2))

\* String(n) of a number n >= 0
RECURSIVE ToDigits(_)
ToDigits(n) ==
    IF n < 10 THEN <<Collation[n + 2]>>
    ELSE Append(ToDigits(n \div 10), Collation[(n % 10) + 2])

\* String(n).padStart(2, "0")
padStart2(n) == IF n < 10 THEN <<"0">> \o ToDigits(n) ELSE ToDigits(n)

\* dateStr.replace(/[nen gatsu]/g, "/")
replaceYearMonth(str) ==
    [n \in 1..Len(str) |-> IF str[n] \in {"nen", "gatsu"} THEN "/" ELSE str[n]]

\* str.replace(/nichi/, ""): the first day sign is removed
RECURSIVE removeFirstDay(_)
removeFirstDay(str) ==
    IF str = <<>> THEN <<>>
    ELSE IF Head(str) = "nichi" THEN Tail(str)
    ELSE <<Head(str)>> \o removeFirstDay(Tail(str))

IsDateSep(c) == c \in {"/", "-", "."}

DateNull == [k |-> "null", v |-> <<>>]

\* cleaned.match(/^(\d{2,4})[/\-.](\d{1,2})[/\-.](\d{1,2})$/): each group, having
\* a non-digit or the end after it, is a whole run of digits
dateMatch(cleaned) ==
    LET n1 == DigitRun(cleaned)
        r1 == SubSeq(cleaned, n1 + 2, Len(cleaned))
        n2 == DigitRun(r1)
        r2 == SubSeq(r1, n2 + 2, Len(r1))
        n3 == DigitRun(r2)
    IN IF /\ n1 \in 2..4
          /\ Len(cleaned) > n1 /\ IsDateSep(cleaned[n1 + 1])
          /\ n2 \in 1..2
          /\ Len(r1) > n2 /\ IsDateSep(r1[n2 + 1])
          /\ n3 \in 1..2
          /\ Len(r2) = n3
       THEN [ok |-> TRUE, g1 |-> SubSeq(cleaned, 1, n1), g2 |-> SubSeq(r1, 1, n2),
             g3 |-> r2]
       ELSE [ok |-> FALSE, g1 |-> <<>>, g2 |-> <<>>, g3 |-> <<>>]

\* parseJapaneseDate: the ISO string of a date cell, or null; the year is written
\* as it is, without padding
parseJapaneseDate(dateStr) ==
    LET cleaned == trim(removeFirstDay(replaceYearMonth(dateStr)))
        match == dateMatch(cleaned)
        y == parseInt(match.g1, 0)
        year == IF y < 100 THEN y + 2000 ELSE y
        month == parseInt(match.g2, 0)
        day == parseInt(match.g3, 0)
    IN IF ~match.ok THEN DateNull
       ELSE IF month < 1 \/ month > 12 \/ day < 1 \/ day > 31 THEN DateNull
       ELSE [k |-> "string",
             v |-> ToDigits(year) \o <<"-">> \o padStart2(month) \o <<"-">>
                       \o padStart2(day)]

\* Number(cleaned) for the strings of the model: an optional sign and digits give
\* the number, anything else NaN, which parseNumber turns into null.  (Decimal
\* fractions, exponents and Infinity are not among the inputs.)
ToNumber(cleaned) ==
    LET signed == cleaned # <<>> /\ Head(cleaned) \in {"-", "+"}
        digits == IF signed THEN Tail(cleaned) ELSE cleaned
    IN IF digits # <<>> /\ DigitRun(digits) = Len(digits)
       THEN (IF signed /\ Head(cleaned) = "-"
             THEN Num(0 - parseInt(digits, 0))
             ELSE Num(parseInt(digits, 0)))
       ELSE Null

\* value.replace(/,/g, "").replace(/yen/g, "")
RECURSIVE removeCommaYen(_)
removeCommaYen(str) ==
    IF str = <<>> THEN <<>>
    ELSE IF Head(str) \in {",", "yen"} THEN removeCommaYen(Tail(str))
    ELSE <<Head(str)>> \o removeCommaYen(Tail(str))

parseNumber(value) ==
    IF value = <<>> \/ value = <<"-", "-">> \/ value = <<"dash">> \/ value = <<"-">>
    THEN Null
    ELSE LET cleaned == trim(removeCommaYen(value))
         IN IF cleaned = <<>> THEN Null ELSE ToNumber(cleaned)

\* a test that looks for the sell marker first
determineSideSellFirst(tradeStr) ==
    IF includes(tradeStr, "uri") THEN "SELL"
    ELSE IF includes(tradeStr, "kai") THEN "BUY"
    ELSE "OTHER"

\* kai is the buy marker, uri the sell marker
determineSide(tradeStr) ==
    IF includes(tradeStr, "kai") THEN "BUY"
    ELSE IF includes(tradeStr, "uri") THEN "SELL"
    ELSE "OTHER"

\* The first line (0-based) from position i on that is a header row, -1 if none
RECURSIVE findHeader(_, _)
findHeader(lines, i) ==
    IF i >= Len(lines) THEN -1
    ELSE IF isHeaderRow(parseCSVLine(lines[i + 1])) THEN i
    ELSE findHeader(lines, i + 1)

\* raw[name]: headers.forEach((h, idx) => raw[h] = fields[idx] ?? ""), a later
\* column of the same name replacing an earlier one; undefined without the column
rawGet(headers, fields, name) ==
    LET at == {n \in 1..Len(headers) : headers[n] = name}
        last == CHOOSE n \in at : \A m \in at : m <= n
    IN IF at = {} THEN [k |-> "undefined", v |-> <<>>]
       ELSE IF last <= Len(fields) THEN [k |-> "string", v |-> fields[last]]
       ELSE [k |-> "string", v |-> <<>>]

\* The row the data loop is at: const line = lines[i].trim(), its fields and
\* the values read from them
Row(p) ==
    LET line == trim(p.lines[p.i + 1])
        fields == parseCSVLine(line)
        raw(name) == Coalesce(rawGet(p.headers, fields, name), <<>>)
    IN [line |-> line,
        fields |-> fields,
        rawDate |-> raw(TradeDateCol),
        tradeDate |-> parseJapaneseDate(raw(TradeDateCol)),
        symbolName |-> raw(NameCol),
        symbolCode |-> raw(SymbolCodeCol),
        rawQty |-> raw(QtyCol),
        qty |-> parseNumber(raw(QtyCol)),
        rawPrice |-> raw(PriceCol),
        price |-> parseNumber(raw(PriceCol)),
        fees |-> parseNumber(raw(FeesCol)),
        tax |-> parseNumber(raw(TaxCol)),
        side |-> determineSide(raw(TradeCol)),
        accountType |-> rawGet(p.headers, fields, AccountCol)]

\* a quantity check that lets 0 through
qtyInvalidBelowZero(qty) == qty.k = "null" \/ qty.v < 0

\* qty === null || qty <= 0
qtyInvalid(qty) == qty.k = "null" \/ qty.v <= 0

\* price === null || price < 0
priceInvalid(price) == price.k = "null" \/ price.v < 0

\* checks made in another order: quantity and price before date and symbol code
firstFailureNumbersFirst(p) ==
    LET row == Row(p)
    IN IF row.line = <<>> THEN "blank"
       ELSE IF Len(row.fields) < Len(p.headers) THEN "columns"
       ELSE IF qtyInvalid(row.qty) THEN "qty"
       ELSE IF priceInvalid(row.price) THEN "price"
       ELSE IF row.tradeDate.k = "null" \/ row.tradeDate.v = <<>> THEN "date"
       ELSE IF row.symbolCode = <<>> THEN "symbol"
       ELSE "none"

\* The check that rejects the row the loop is at, in the order of lines 134-173;
\* "blank" for a line that is skipped, "none" for a row that is accepted
firstFailure(p) ==
    LET row == Row(p)
    IN IF row.line = <<>> THEN "blank"
       ELSE IF Len(row.fields) < Len(p.headers) THEN "columns"
       ELSE IF row.tradeDate.k = "null" \/ row.tradeDate.v = <<>> THEN "date"
       ELSE IF row.symbolCode = <<>> THEN "symbol"
       ELSE IF qtyInvalid(row.qty) THEN "qty"
       ELSE IF priceInvalid(row.price) THEN "price"
       ELSE "none"

\* a.tradeDate.localeCompare(b.tradeDate) <= 0 does not move b before a: the
\* place of f in arr, already sorted, behind every fill that does not come after it
RECURSIVE insertByTradeDate(_, _)
insertByTradeDate(arr, f) ==
    IF arr = <<>> THEN <<f>>
    ELSE IF localeCompare(arr[Len(arr)].tradeDate, f.tradeDate) <= 0
    THEN Append(arr, f)
    ELSE Append(insertByTradeDate(SubSeq(arr, 1, Len(arr) - 1), f), arr[Len(arr)])

\* fills.sort((a, b) => a.tradeDate.localeCompare(b.tradeDate)): the comparator
\* is a consistent order, for which the sort is the stable one
RECURSIVE sortByTradeDate(_)
sortByTradeDate(arr) ==
    IF arr = <<>> THEN <<>>
    ELSE insertByTradeDate(sortByTradeDate(SubSeq(arr, 1, Len(arr) - 1)), arr[Len(arr)])

NoResult == [fills |-> <<>>, totalRows |-> 0, successRows |-> 0, failedRows |-> 0,
             unknownFieldCount |-> 0, errors |-> <<>>]

ParseError(line, kind, value) == [line |-> line, kind |-> kind, value |-> value]

\* const lines = text.split(...); the search for the header row
FindHeader ==
    /\ parser.pc = "start"
    /\ LET lines == split(text)
           headerIndex == findHeader(lines, 0)
       IN parser' = [parser EXCEPT
              !.lines = lines,
              !.headerIndex = headerIndex,
              !.headers = IF headerIndex = -1 THEN <<>>
                          ELSE parseCSVLine(lines[headerIndex + 1]),
              !.i = headerIndex + 1,
              !.pc = IF headerIndex = -1 THEN "noheader" ELSE "rows"]
    /\ UNCHANGED text
    /\ UNCHANGED <<engineVars, appVars, statVars>>

\* if (headerIndex === -1) return { ... }
ReturnNoHeader ==
    /\ parser.pc = "noheader"
    /\ parser' = [parser EXCEPT
           !.result = [fills |-> <<>>, totalRows |-> 0, successRows |-> 0,
                       failedRows |-> 0, unknownFieldCount |-> 0,
                       errors |-> <<ParseError(0, "header", <<>>)>>],
           !.pc = "done"]
    /\ UNCHANGED text
    /\ UNCHANGED <<engineVars, appVars, statVars>>

AtRow == parser.pc = "rows" /\ parser.i < Len(parser.lines)

\* if (!line) continue
SkipBlank ==
    /\ AtRow
    /\ firstFailure(parser) = "blank"
    /\ parser' = [parser EXCEPT !.i = @ + 1]
    /\ UNCHANGED text
    /\ UNCHANGED <<engineVars, appVars, statVars>>

\* a rejection that leaves failedRows as it is
RejectedUncounted(p, kind, value) ==
    [p EXCEPT !.totalRows = @ + 1,
              !.errors = Append(@, ParseError(p.i + 1, kind, value)),
              !.i = @ + 1]

\* totalRows++; errors.push(...); failedRows++; continue
Rejected(p, kind, value) ==
    [p EXCEPT !.totalRows = @ + 1,
              !.errors = Append(@, ParseError(p.i + 1, kind, value)),
              !.failedRows = @ + 1,
              !.i = @ + 1]

\* if (fields.length < headers.length)
RejectColumns ==
    /\ AtRow
    /\ firstFailure(parser) = "columns"
    /\ parser' = Rejected(parser, "columns",
                          ToDigits(Len(Row(parser).fields)) \o <<"/">>
                              \o ToDigits(Len(parser.headers)))
    /\ UNCHANGED text
    /\ UNCHANGED <<engineVars, appVars, statVars>>

\* if (!tradeDate)
RejectDate ==
    /\ AtRow
    /\ firstFailure(parser) = "date"
    /\ parser' = Rejected(parser, "date", Row(parser).rawDate)
    /\ UNCHANGED text
    /\ UNCHANGED <<engineVars, appVars, statVars>>

\* if (!symbolCode)
RejectSymbol ==
    /\ AtRow
    /\ firstFailure(parser) = "symbol"
    /\ parser' = Rejected(parser, "symbol", <<>>)
    /\ UNCHANGED text
    /\ UNCHANGED <<engineVars, appVars, statVars>>

\* if (qty === null || qty <= 0)
RejectQty ==
    /\ AtRow
    /\ firstFailure(parser) = "qty"
    /\ parser' = Rejected(parser, "qty", Row(parser).rawQty)
    /\ UNCHANGED text
    /\ UNCHANGED <<engineVars, appVars, statVars>>

\* if (price === null || price < 0)
RejectPrice ==
    /\ AtRow
    /\ firstFailure(parser) = "price"
    /\ parser' = Rejected(parser, "price", Row(parser).rawPrice)
    /\ UNCHANGED text
    /\ UNCHANGED <<engineVars, appVars, statVars>>

\* The NormalizedFill of an accepted row
MakeFill(row, line) ==
    [tradeDate |-> row.tradeDate.v,
     symbolName |-> row.symbolName,
     symbolCode |-> row.symbolCode,
     side |-> row.side,
     qty |-> row.qty.v,
     price |-> row.price.v,
     fees |-> row.fees,
     tax |-> row.tax,
     accountType |-> row.accountType,
     line |-> line]

\* one for fees and tax both, however many of the two are null
unknownFieldsOnce(row) ==
    IF row.fees.k = "null" \/ row.tax.k = "null" THEN 1 ELSE 0

\* if (fees === null) unknownFieldCount++; if (tax === null) unknownFieldCount++
unknownFields(row) ==
    (IF row.fees.k = "null" THEN 1 ELSE 0) + (IF row.tax.k = "null" THEN 1 ELSE 0)

\* totalRows++; ...; fills.push(fill); successRows++
AcceptRow ==
    /\ AtRow
    /\ firstFailure(parser) = "none"
    /\ LET row == Row(parser)
       IN parser' = [parser EXCEPT
              !.totalRows = @ + 1,
              !.unknownFieldCount = @ + unknownFields(row),
              !.fills = Append(@, MakeFill(row, parser.i + 1)),
              !.successRows = @ + 1,
              !.i = @ + 1]
    /\ UNCHANGED text
    /\ UNCHANGED <<engineVars, appVars, statVars>>

\* fills.sort(...); return { fills, totalRows, ... }
SortAndReturn ==
    /\ parser.pc = "rows"
    /\ parser.i >= Len(parser.lines)
    /\ parser' = [parser EXCEPT
           !.fills = sortByTradeDate(parser.fills),
           !.result = [fills |-> sortByTradeDate(parser.fills),
                       totalRows |-> parser.totalRows,
                       successRows |-> parser.successRows,
                       failedRows |-> parser.failedRows,
                       unknownFieldCount |-> parser.unknownFieldCount,
                       errors |-> parser.errors],
           !.pc = "done"]
    /\ UNCHANGED text
    /\ UNCHANGED <<engineVars, appVars, statVars>>

NextParse ==
    \/ FindHeader
    \/ ReturnNoHeader
    \/ SkipBlank
    \/ RejectColumns
    \/ RejectDate
    \/ RejectSymbol
    \/ RejectQty
    \/ RejectPrice
    \/ AcceptRow
    \/ SortAndReturn

-----------------------------------------------------------------------------
(* The texts parseCSV is explored for *)

MaxRows == 3

RECURSIVE JoinWith(_, _)
JoinWith(parts, sep) ==
    IF parts = <<>> THEN <<>>
    ELSE IF Len(parts) = 1 THEN parts[1]
    ELSE parts[1] \o sep \o JoinWith(Tail(parts), sep)

Csv(fields) == JoinWith(fields, <<",">>)

HeaderLine == Csv(<<TradeDateCol, SymbolCodeCol, TradeCol, QtyCol, PriceCol, FeesCol, TaxCol>>)

\* a header that lacks the price column
PartHeaderLine == Csv(<<TradeDateCol, SymbolCodeCol, TradeCol, QtyCol, FeesCol, TaxCol>>)

Buy == <<"gen", "butsu", "kai">>

Sell == <<"gen", "butsu", "uri">>

DataRow(date, code, trade, qty, price, fees, tax) ==
    Csv(<<Chars(date), Chars(code), trade, Chars(qty), Chars(price), Chars(fees),
          Chars(tax)>>)

GoodRow == DataRow("2024/01/15", "1234", Buy, "100", "1000", "10", "5")

ShortRow == Chars("2024/13/01,1234,,0")

\* rows that pass and rows that fail one check or several
CheckRows ==
    {GoodRow,
     DataRow("2024/01/16", "1234", Sell, "100", "0", "--", ""),
     ShortRow,
     DataRow("2024/13/01", "1234", Buy, "-5", "1000", "10", "5"),
     DataRow("2024/01/15", " ", Buy, "100", "--", "10", "5"),
     DataRow("2024/01/15", "1234", Buy, "0", "1000", "10", "5"),
     DataRow("2024/01/15", "1234", Sell, "x", "-1", "10", "5"),
     DataRow("2024/01/15", "1234", Buy, "100", "-1", "10", "5")}

\* rows that pass, with trade dates in several forms and two of one date
DateRows ==
    {DataRow("2024/01/15", "1", Buy, "1", "1", "0", "0"),
     DataRow("2024/01/15", "2", Sell, "1", "1", "0", "0"),
     Chars("2024") \o <<"nen">> \o Chars("1") \o <<"gatsu">> \o Chars("10")
         \o <<"nichi">> \o Chars(",3,,1,1,0,0"),
     DataRow("24.1.9", "4", Buy, "1", "1", "0", "0"),
     DataRow("999-01-01", "5", Buy, "1", "1", "0", "0")}

\* rows with the fees and tax cells unknown in every way, one of them rejected
FeeRows ==
    {DataRow("2024/01/15", "1", Sell, "1", "1", "--", "-"),
     Csv(<<Chars("2024/01/15"), Chars("1"), Sell, Chars("1"), Chars("1"),
           <<"dash">>, <<>>>>),
     DataRow("2024/01/15", "1", Sell, "1", "1", "x", "10"),
     DataRow("2024/01/15", "1", Buy, "1", "1", "0", "5"),
     DataRow("2024/01/15", "1", Buy, "0", "1", "--", "--")}

\* the header row with every name in double quotes
QuotedHeaderLine ==
    Csv([n \in 1..7 |-> <<"\"">> \o <<TradeDateCol, SymbolCodeCol, TradeCol, QtyCol,
                                         PriceCol, FeesCol, TaxCol>>[n] \o <<"\"">>])

\* rows with quoted cells: commas inside quotes, a doubled quote, blanks inside
\* and around quotes, a quote that is never closed
QuoteRows ==
    {Chars("2024/01/15,\"12,34\",") \o Buy \o Chars(",\"1,000\",\"2,000\",10,5"),
     Chars("\"2024/01/15\", \"a\"\"b\" ,") \o Sell \o Chars(",1,1,0,0"),
     Chars(" 2024/01/15 ,\" 7 \",") \o Buy \o Chars(",1,1,\"\",\"\""),
     Chars("2024/01/15,\"1,") \o Buy \o Chars(",1,1,0,0")}

\* Longest line of the lines explored character by character
MaxLine == 4

LineChars == {"\"", ",", " ", "a"}

ShortLines == SeqsUpTo(LineChars, MaxLine)

\* a header row with the required names in another order, among other columns
ShuffledHeaderLine ==
    Csv(<<PriceCol, Chars("memo"), QtyCol, SymbolCodeCol, TradeCol, TradeDateCol>>)

\* a row that passes every check under the shuffled header
ShuffledRow == Chars("1000,x,100,1234,") \o Buy \o Chars(",2024/01/15")

\* lines around a header: a header lacking a name, a header, a row, a blank line
HeaderLines == {PartHeaderLine, ShuffledHeaderLine, ShuffledRow, Chars(" ")}

\* a header row without the trade column
NoTradeHeaderLine == Csv(<<TradeDateCol, SymbolCodeCol, QtyCol, PriceCol>>)

\* transaction types: a buy, a sell, one with both markers (baibai), one with
\* neither (nyuukin), none
TradeCells == {Buy, Sell, <<"uri", "kai">>, <<"nyuu", "kin">>, <<>>}

\* rows that pass every check, one for each transaction type
SideRows ==
    {DataRow("2024/01/15", "1", trade, "1", "1", "0", "0") : trade \in TradeCells}

\* lines of a text without header row
OtherLines == {Chars("abc"), PartHeaderLine, GoodRow, <<>>}

Lf == <<"LF">>

CrLf == <<"CR", "LF">>

Texts ==
    {JoinWith(<<HeaderLine>> \o rows, Lf) : rows \in SeqsUpTo(CheckRows, MaxRows)}
    \cup {JoinWith(<<HeaderLine>> \o rows, CrLf) : rows \in SeqsUpTo(DateRows, MaxRows)}
    \cup {JoinWith(<<HeaderLine>> \o rows, Lf) : rows \in SeqsUpTo(FeeRows, MaxRows)}
    \cup {JoinWith(ls, Lf) : ls \in SeqsUpTo(OtherLines, MaxRows)}
    \cup {JoinWith(<<h>> \o rows, Lf) :
             h \in {HeaderLine, QuotedHeaderLine}, rows \in SeqsUpTo(QuoteRows, MaxRows - 1)}
    \cup ShortLines
    \cup {JoinWith(<<HeaderLine>> \o rows, Lf) : rows \in SeqsUpTo(SideRows, MaxRows - 1)}
    \cup {JoinWith(<<NoTradeHeaderLine, Chars("2024/01/15,1,1,1")>>, Lf)}
    \cup {JoinWith(<<PartHeaderLine>> \o ls, Lf) : ls \in SeqsUpTo(HeaderLines, MaxRows)}
    \cup {JoinWith(<<Chars("abc"), <<>>, HeaderLine>> \o rows, Lf) :
             rows \in SeqsUpTo({GoodRow, ShortRow, Chars("  ")}, MaxRows - 1)}

InitParse ==
    /\ text \in Texts
    /\ parser = [pc |-> "start", lines |-> <<>>, headerIndex |-> -1, headers |-> <<>>,
                 i |-> 0, fills |-> <<>>, errors |-> <<>>, totalRows |-> 0,
                 successRows |-> 0, failedRows |-> 0, unknownFieldCount |-> 0,
                 result |-> NoResult]
    /\ fills = <<>>
    /\ openingPositions = <<>>
    /\ pc = "idle"
    /\ lots = EmptyMap
    /\ sorted = <<>>
    /\ idx = 1
    /\ trades = <<>>
    /\ missingCostMap = <<>>
    /\ result = [trades |-> <<>>, missingCostSymbols |-> <<>>]
    /\ matchLog = <<>>
    /\ calls = <<>>
    /\ AppAtRest

SpecParse == InitParse /\ [][NextParse]_vars

-----------------------------------------------------------------------------
(* The App component: loading files and clearing.                           *)
(*                                                                          *)
(* A file is given by the ParseResult that parseCSV(decodeShiftJIS(buffer)) *)
(* returns for it (SpecParse is the model of that call); its fills are in   *)
(* the order parseCSV returns them, sorted by trade date.                   *)
(*                                                                          *)
(* handleFilesLoaded is an async function: it runs to its first await, and  *)
(* each later step starts when the pending file read resolves.  After the   *)
(* last read nothing is awaited any more, so the parse of the last file and *)
(* the two state updates are one step.  The updates are functional          *)
(* (prev => ...): each is applied to the state the updates before it left.  *)

MaxLoads == 2

ParseResultOf(fs, errs) ==
    [fills |-> fs, totalRows |-> Len(fs) + Len(errs), successRows |-> Len(fs),
     failedRows |-> Len(errs), unknownFieldCount |-> 0, errors |-> errs]

Files ==
    {[name |-> "A",
      result |-> ParseResultOf(<<Fill(D1, "1", Str("A"), "BUY", 1, 1, Num(0), Num(0)),
                                 Fill(D2, "1", Str("A"), "SELL", 1, 3, Num(0), Num(0))>>,
                               <<>>)],
     [name |-> "B",
      result |-> ParseResultOf(<<Fill(D1, "1", Str("A"), "BUY", 1, 2, Num(0), Num(0))>>,
                               <<>>)],
     [name |-> "C",
      result |-> ParseResultOf(<<Fill(D11, "2", Str("A"), "BUY", 1, 1, Num(0), Num(0))>>,
                               <<ParseError(3, "qty", <<"0">>)>>)]}

\* a file with a row dated 999-01-01, the trade date parseJapaneseDate gives it
OldFile ==
    [name |-> "D",
     result |-> ParseResultOf(<<Fill(Chars("999-01-01"), "3", Str("A"), "BUY", 1, 1,
                                     Num(0), Num(0))>>,
                              <<>>)]

\* what the user drops: one file, or two different files in either order
FileLists == {<<f>> : f \in Files}
                 \cup {fs \in Files \X Files : fs[1] # fs[2]}
                 \cup {<<OldFile>>}

\* the call, up to the first await: file.arrayBuffer() of the first file
handleFilesLoaded ==
    /\ Len(loads) < MaxLoads
    /\ \E files \in FileLists :
          loads' = Append(loads, [files |-> files, k |-> 1, newResults |-> <<>>,
                                  allFills |-> <<>>, pc |-> "await"])
    /\ UNCHANGED <<app, loadLog>>
    /\ UNCHANGED <<engineVars, parseVars, statVars>>

\* const result = parseCSV(text); newResults.push(result);
\* allFills.push(...result.fills)
AfterRead(load) ==
    [load EXCEPT !.newResults = Append(@, load.files[load.k].result),
                 !.allFills = @ \o load.files[load.k].result.fills,
                 !.k = @ + 1]

\* a file read resolves and another file follows: the next await
FileRead(n) ==
    /\ n \in 1..Len(loads)
    /\ loads[n].pc = "await"
    /\ loads[n].k < Len(loads[n].files)
    /\ loads' = [loads EXCEPT ![n] = AfterRead(@)]
    /\ UNCHANGED <<app, loadLog>>
    /\ UNCHANGED <<engineVars, parseVars, statVars>>

\* setFills((prev) => { const combined = [...prev, ...allFills];
\*                      combined.sort(...); return combined; })
setFills(prev, allFills) == sortByTradeDate(prev \o allFills)

\* the read of the last file resolves: the loop ends, setParseResults and
\* setFills follow
FileReadLast(n) ==
    /\ n \in 1..Len(loads)
    /\ loads[n].pc = "await"
    /\ loads[n].k = Len(loads[n].files)
    /\ LET load == AfterRead(loads[n])
       IN /\ loads' = [loads EXCEPT ![n] = [load EXCEPT !.pc = "done"]]
          /\ app' = [app EXCEPT !.parseResults = @ \o load.newResults,
                                !.fills = setFills(@, load.allFills)]
          /\ loadLog' = loadLog \o [i \in 1..Len(load.files) |->
                                       [op |-> "load", file |-> load.files[i], by |-> n]]
    /\ UNCHANGED <<engineVars, parseVars, statVars>>

\* History: loadLog notes every file when its invocation (by) completes, and
\* every handleClear
ClearEntry == [op |-> "clear", file |-> [name |-> "-"], by |-> 0]

\* a clear that also drops the invocations awaiting a read
handleClearCancelling ==
    /\ Len(app.fills) > 0
    /\ app' = [app EXCEPT !.fills = <<>>, !.parseResults = <<>>]
    /\ loadLog' = Append(loadLog, ClearEntry)
    /\ loads' = [n \in 1..Len(loads) |->
                    IF loads[n].pc = "await" THEN [loads[n] EXCEPT !.pc = "done"]
                    ELSE loads[n]]
    /\ UNCHANGED <<engineVars, parseVars, statVars>>

\* setFills([]); setParseResults([]).  The button that calls it is shown when
\* fills.length > 0.
handleClear ==
    /\ Len(app.fills) > 0
    /\ app' = [app EXCEPT !.fills = <<>>, !.parseResults = <<>>]
    /\ loadLog' = Append(loadLog, ClearEntry)
    /\ UNCHANGED loads
    /\ UNCHANGED <<engineVars, parseVars, statVars>>

\* onChange={setFilters}: the filter bar, shown when fills.length > 0, hands
\* over a new filter state
setFilters(f) ==
    /\ Len(app.fills) > 0
    /\ app.filters # f
    /\ app' = [app EXCEPT !.filters = f]
    /\ UNCHANGED <<loads, loadLog>>
    /\ UNCHANGED <<engineVars, parseVars, statVars>>

\* onChange={setOpeningPositions}: the positions tab, shown when
\* fills.length > 0, hands over a new list
setOpeningPositions(ops) ==
    /\ Len(app.fills) > 0
    /\ app.openingPositions # ops
    /\ app' = [app EXCEPT !.openingPositions = ops]
    /\ UNCHANGED <<loads, loadLog>>
    /\ UNCHANGED <<engineVars, parseVars, statVars>>

\* the filter states and the lists of opening positions the user switches
\* between while files are loaded
AppFilters == {NoFilters, [NoFilters EXCEPT !.dateFrom = D2]}

AppOpenings == {<<>>, <<Opening("1", "A", 1, 2)>>}

NextApp ==
    \/ handleFilesLoaded
    \/ \E n \in 1..MaxLoads : FileRead(n)
    \/ \E n \in 1..MaxLoads : FileReadLast(n)
    \/ handleClear
    \/ \E f \in AppFilters : setFilters(f)
    \/ \E ops \in AppOpenings : setOpeningPositions(ops)

-----------------------------------------------------------------------------
(* The view of the App component: filteredFills and the result of              *)
(* calculateRealizedPnl that the two useMemo calls derive from the state.      *)

\* The UTF-16 code unit of a character of a date
CodeUnit(c) == IF c = "-" THEN 45 ELSE 48 + (CharRank(c) - 2)

\* a < b of two strings: by code units, a proper prefix being the lesser
RECURSIVE lessThan(_, _)
lessThan(a, b) ==
    IF b = <<>> THEN FALSE
    ELSE IF a = <<>> THEN TRUE
    ELSE IF CodeUnit(Head(a)) # CodeUnit(Head(b)) THEN CodeUnit(Head(a)) < CodeUnit(Head(b))
    ELSE lessThan(Tail(a), Tail(b))

\* The pieces a symbol code or name of the view's fills is made of
Affixes == {"", "1", "2", "M"}

\* str.includes(sub)
includesStr(str, sub) == \E a, b \in Affixes : a \o sub \o b = str

\* the callback of fills.filter: false for a fill that one of the filters in
\* force rejects
keepsFill(f, filters) ==
    IF filters.dateFrom # <<>> /\ lessThan(f.tradeDate, filters.dateFrom) THEN FALSE
    ELSE IF filters.dateTo # <<>> /\ lessThan(filters.dateTo, f.tradeDate) THEN FALSE
    ELSE IF filters.accountType # "" /\ f.accountType # Str(filters.accountType) THEN FALSE
    ELSE IF /\ filters.symbolSearch # ""
            /\ ~includesStr(f.symbolName, filters.symbolSearch)
            /\ ~includesStr(f.symbolCode, filters.symbolSearch)
    THEN FALSE
    ELSE TRUE

RECURSIVE filterFills(_, _)
filterFills(fs, filters) ==
    IF fs = <<>> THEN <<>>
    ELSE (IF keepsFill(Head(fs), filters) THEN <<Head(fs)>> ELSE <<>>)
             \o filterFills(Tail(fs), filters)

\* fills handed on as they are
unfilteredFills(a) == a.fills

\* const filteredFills = useMemo(() => fills.filter(...), [fills, filters])
filteredFills(a) == filterFills(a.fills, a.filters)

\* useMemo(() => calculateRealizedPnl(filteredFills, openingPositions), ...)
viewResult(a) == calculateRealizedPnl(filteredFills(a), a.openingPositions)

\* fills of two keys, one with its SELL under another symbol name, and a BUY
\* without account type
ViewFills ==
    {Fill(D1, "12", Str("A"), "BUY", 1, 1, Num(0), Num(0)),
     Fill(D2, "12", Str("A"), "SELL", 1, 3, Num(0), Num(0)),
     Fill(D1, "2", Str("B"), "BUY", 1, 1, Num(0), Num(0)),
     [Fill(D2, "2", Str("B"), "SELL", 1, 3, Num(0), Num(0)) EXCEPT !.symbolName = "2M"],
     Fill(D11, "12", NoStr, "BUY", 1, 1, Num(0), Num(0))}

\* the file that was loaded: its rows in any order, sorted by parseCSV
ViewFiles ==
    {[name |-> "V", result |-> ParseResultOf(sortByTradeDate(fs), <<>>)] :
        fs \in SeqsUpTo(ViewFills, MaxFills) \ {<<>>}}

ViewFilters ==
    {NoFilters,
     [NoFilters EXCEPT !.dateFrom = D2],
     [NoFilters EXCEPT !.dateTo = D1],
     [NoFilters EXCEPT !.dateFrom = D11, !.dateTo = D2],
     [NoFilters EXCEPT !.accountType = "A"],
     [NoFilters EXCEPT !.accountType = "B"],
     [NoFilters EXCEPT !.symbolSearch = "1"],
     [NoFilters EXCEPT !.symbolSearch = "2"],
     [NoFilters EXCEPT !.symbolSearch = "2M"],
     [NoFilters EXCEPT !.dateFrom = D2, !.accountType = "B"]}

ViewOpenings == {<<>>, <<Opening("2", "B", 1, 2)>>}

NextView ==
    \/ \E f \in ViewFilters : setFilters(f)
    \/ \E ops \in ViewOpenings : setOpeningPositions(ops)

EngineAtRest ==
    /\ fills = <<>>
    /\ openingPositions = <<>>
    /\ pc = "idle"
    /\ lots = EmptyMap
    /\ sorted = <<>>
    /\ idx = 1
    /\ trades = <<>>
    /\ missingCostMap = <<>>
    /\ result = [trades |-> <<>>, missingCostSymbols |-> <<>>]
    /\ matchLog = <<>>
    /\ calls = <<>>

InitApp ==
    /\ AppAtRest
    /\ fills = <<>>
    /\ openingPositions = <<>>
    /\ pc = "idle"
    /\ lots = EmptyMap
    /\ sorted = <<>>
    /\ idx = 1
    /\ trades = <<>>
    /\ missingCostMap = <<>>
    /\ result = [trades |-> <<>>, missingCostSymbols |-> <<>>]
    /\ matchLog = <<>>
    /\ calls = <<>>
    /\ text = <<>>
    /\ parser = NotParsing

SpecApp == InitApp /\ [][NextApp]_vars

\* The App component after one invocation of handleFilesLoaded with one file
\* has completed
InitView ==
    /\ \E file \in ViewFiles :
          /\ app = [InitialApp EXCEPT !.fills = setFills(<<>>, file.result.fills),
                                      !.parseResults = <<file.result>>]
          /\ loads = <<[files |-> <<file>>, k |-> 2, newResults |-> <<file.result>>,
                        allFills |-> file.result.fills, pc |-> "done"]>>
          /\ loadLog = <<[op |-> "load", file |-> file, by |-> 1]>>
    /\ stats = NoStats
    /\ EngineAtRest
    /\ text = <<>>
    /\ parser = NotParsing

SpecView == InitView /\ [][NextView]_vars

-----------------------------------------------------------------------------
(* The aggregation functions.  Each is one step: it reads the trades and    *)
(* returns a value built from copies (filter makes a new array, which is    *)
(* the one sorted).  Amounts are whole numbers, as in the engine; an        *)
(* average or a ratio is kept as the exact fraction.                        *)

MaxTrades == 3

\* trades.filter((t) => t.realizedPnl !== null)
calculableOf(ts) == SelectSeq(ts, LAMBDA t : t.realizedPnl.k # "null")

\* trades.filter((t) => t.realizedPnl === null)
uncalculableOf(ts) == SelectSeq(ts, LAMBDA t : t.realizedPnl.k = "null")

\* the trades with P&L >= 0
winsWithDraws(calculable) == SelectSeq(calculable, LAMBDA t : t.realizedPnl.v >= 0)

\* calculable.filter((t) => t.realizedPnl! > 0)
winsOf(calculable) == SelectSeq(calculable, LAMBDA t : t.realizedPnl.v > 0)

\* calculable.filter((t) => t.realizedPnl! < 0)
lossesOf(calculable) == SelectSeq(calculable, LAMBDA t : t.realizedPnl.v < 0)

\* calculable.filter((t) => t.realizedPnl === 0)
drawsOf(calculable) == SelectSeq(calculable, LAMBDA t : t.realizedPnl.v = 0)

\* xs.reduce((sum, t) => sum + t.realizedPnl!, 0)
RECURSIVE sumPnl(_)
sumPnl(ts) ==
    IF ts = <<>> THEN 0
    ELSE sumPnl(SubSeq(ts, 1, Len(ts) - 1)) + ts[Len(ts)].realizedPnl.v

Abs(x) == IF x < 0 THEN 0 - x ELSE x

Infinity == [k |-> "Infinity", num |-> 1, den |-> 0]

\* the array in the order it was given
unsorted(calculable) == calculable

\* calculable.sort((a, b) => a.tradeDate.localeCompare(b.tradeDate))
byTradeDate(calculable) == sortByTradeDate(calculable)

\* the body of the drawdown loop, for the trades from the n-th on
RECURSIVE drawdownLoop(_, _, _)
drawdownLoop(ts, n, st) ==
    IF n > Len(ts) THEN st
    ELSE LET cumulative == st.cumulative + ts[n].realizedPnl.v
             peak == IF cumulative > st.peak THEN cumulative ELSE st.peak
             dd == peak - cumulative
         IN drawdownLoop(ts, n + 1,
                [peak |-> peak, cumulative |-> cumulative,
                 maxDrawdown |-> IF dd > st.maxDrawdown THEN dd ELSE st.maxDrawdown])

computeSummary(ts) ==
    LET calculable == calculableOf(ts)
        uncalculable == uncalculableOf(ts)
        wins == winsOf(calculable)
        losses == lossesOf(calculable)
        draws == drawsOf(calculable)
        totalPnl == sumPnl(calculable)
        totalProfit == sumPnl(wins)
        totalLoss == sumPnl(losses)
        scan == drawdownLoop(byTradeDate(calculable), 1,
                             [peak |-> 0, cumulative |-> 0, maxDrawdown |-> 0])
    IN [totalPnl |-> totalPnl,
        winCount |-> Len(wins),
        loseCount |-> Len(losses),
        drawCount |-> Len(draws),
        calculableCount |-> Len(calculable),
        uncalculableCount |-> Len(uncalculable),
        avgWin |-> IF Len(wins) > 0 THEN Quot(totalProfit, Len(wins)) ELSE Quot(0, 1),
        avgLoss |-> IF Len(losses) > 0 THEN Quot(totalLoss, Len(losses)) ELSE Quot(0, 1),
        profitFactor |-> IF totalLoss # 0 THEN Quot(Abs(totalProfit), Abs(totalLoss))
                         ELSE IF totalProfit > 0 THEN Infinity ELSE NullQuot,
        maxDrawdown |-> scan.maxDrawdown,
        totalProfit |-> totalProfit,
        totalLoss |-> totalLoss]

\* the key of a group taken to be the symbol code and the account type
groupKeyWithAccount(t) == <<t.symbolCode, t.accountType>>

\* map.get(t.symbolCode)
groupKey(t) == t.symbolCode

\* the keys of the Map in the order of their insertion: of first occurrence
RECURSIVE groupKeys(_)
groupKeys(ts) ==
    IF ts = <<>> THEN <<>>
    ELSE LET before == groupKeys(SubSeq(ts, 1, Len(ts) - 1))
             key == groupKey(ts[Len(ts)])
         IN IF \E n \in 1..Len(before) : before[n] = key THEN before
            ELSE Append(before, key)

\* the SymbolSummary pushed for one entry of the Map
SymbolSummaryOf(symTrades) ==
    LET calculable == calculableOf(symTrades)
        wins == winsOf(calculable)
        totalPnl == sumPnl(calculable)
    IN [symbolCode |-> symTrades[1].symbolCode,
        symbolName |-> symTrades[1].symbolName,
        totalPnl |-> totalPnl,
        winCount |-> Len(wins),
        loseCount |-> Len(lossesOf(calculable)),
        tradeCount |-> Len(symTrades),
        avgPnl |-> IF Len(calculable) > 0 THEN Quot(totalPnl, Len(calculable))
                   ELSE Quot(0, 1),
        winRate |-> IF Len(calculable) > 0 THEN Quot(Len(wins), Len(calculable))
                    ELSE Quot(0, 1),
        uncalculableCount |-> Len(uncalculableOf(symTrades))]

RECURSIVE insertByTotalPnl(_, _)
insertByTotalPnl(arr, x) ==
    IF arr = <<>> THEN <<x>>
    ELSE IF x.totalPnl - arr[Len(arr)].totalPnl <= 0
    THEN Append(arr, x)
    ELSE Append(insertByTotalPnl(SubSeq(arr, 1, Len(arr) - 1), x), arr[Len(arr)])

\* summaries.sort((a, b) => b.totalPnl - a.totalPnl): the comparator is a
\* consistent order, for which the sort is the stable one
RECURSIVE sortByTotalPnl(_)
sortByTotalPnl(arr) ==
    IF arr = <<>> THEN <<>>
    ELSE insertByTotalPnl(sortByTotalPnl(SubSeq(arr, 1, Len(arr) - 1)), arr[Len(arr)])

computeSymbolSummaries(ts) ==
    LET keys == groupKeys(ts)
        summaries == [n \in 1..Len(keys) |->
                         SymbolSummaryOf(SelectSeq(ts, LAMBDA t : groupKey(t) = keys[n]))]
    IN sortByTotalPnl(summaries)

\* every point with the P&L of its own trade
ownPnl(calculable) ==
    [n \in 1..Len(calculable) |->
        [date |-> calculable[n].tradeDate, cumPnl |-> calculable[n].realizedPnl.v]]

\* let cum = 0; calculable.map((t) => { cum += t.realizedPnl!; return {...} })
cumulate(calculable) ==
    [n \in 1..Len(calculable) |->
        [date |-> calculable[n].tradeDate,
         cumPnl |-> sumPnl(SubSeq(calculable, 1, n))]]

getCumulativePnlSeries(ts) == cumulate(byTradeDate(calculableOf(ts)))

\* const summary = useMemo(() => computeSummary(trades), [trades])
ComputeSummary ==
    /\ stats.summary = NotComputed
    /\ stats' = [stats EXCEPT !.summary = Computed(computeSummary(stats.trades))]
    /\ UNCHANGED <<engineVars, parseVars, appVars>>

\* const symbolSummaries = useMemo(() => computeSymbolSummaries(trades), [trades])
ComputeSymbolSummaries ==
    /\ stats.symbolSummaries = NotComputed
    /\ stats' = [stats EXCEPT !.symbolSummaries =
                             Computed(computeSymbolSummaries(stats.trades))]
    /\ UNCHANGED <<engineVars, parseVars, appVars>>

\* const cumSeries = useMemo(() => getCumulativePnlSeries(trades), [trades])
GetCumulativePnlSeries ==
    /\ stats.series = NotComputed
    /\ stats' = [stats EXCEPT !.series = Computed(getCumulativePnlSeries(stats.trades))]
    /\ UNCHANGED <<engineVars, parseVars, appVars>>

NextStats ==
    \/ ComputeSummary
    \/ ComputeSymbolSummaries
    \/ GetCumulativePnlSeries

\* a RealizedTrade with the P&L given; the cost is unknown when it is null
Trade(date, sym, acct, pnl) ==
    [tradeDate |-> date, symbolCode |-> sym, symbolName |-> "N", side |-> "SELL",
     qty |-> 1, sellPrice |-> 1,
     buyPriceAvg |-> IF pnl = Null THEN NullQuot ELSE Quot(1, 1),
     fees |-> Num(0), tax |-> Num(0), realizedPnl |-> pnl,
     reasonIfNull |-> IF pnl = Null THEN Str("UNKNOWN_COST") ELSE NoStr,
     feesEstimated |-> FALSE, accountType |-> acct]

\* trades of one symbol on two dates, with losses, a draw and a gain
DrawdownTrades ==
    {Trade(d, "1", Str("A"), x) : d \in {D1, D2}, x \in {Null, Num(-2), Num(0), Num(1)}}

\* trades of one date, of two symbols, one of them in two account types
SymbolTrades ==
    {Trade(D1, k[1], Str(k[2]), x) :
        k \in {<<"1", "A">>, <<"1", "B">>, <<"2", "A">>},
        x \in {Null, Num(-2), Num(3)}}

InitStats ==
    /\ stats \in {[NoStats EXCEPT !.trades = ts] :
                    ts \in SeqsUpTo(DrawdownTrades, MaxTrades)
                             \cup SeqsUpTo(SymbolTrades, MaxTrades)}
    /\ app = InitialApp /\ loads = <<>> /\ loadLog = <<>>
    /\ EngineAtRest
    /\ text = <<>>
    /\ parser = NotParsing

SpecStats == InitStats /\ [][NextStats]_vars

-----------------------------------------------------------------------------
(* Vocabulary of the properties.  These definitions restate, without the   *)
(* loop of the engine, what a SELL is expected to take from a queue.       *)

RECURSIVE SumQty(_)
SumQty(q) == IF q = <<>> THEN 0 ELSE Head(q).qty + SumQty(Tail(q))

Max(a, b) == IF a > b THEN a ELSE b

\* Quantity a sell of quantity n takes from the i-th lot of queue q
ShareOf(q, i, n) == Min(q[i].qty, Max(0, n - SumQty(SubSeq(q, 1, i - 1))))

RECURSIVE CostFrom(_, _, _)
CostFrom(q, i, n) ==
    IF i > Len(q) THEN 0 ELSE q[i].price * ShareOf(q, i, n) + CostFrom(q, i + 1, n)

\* Cost of selling n out of queue q, oldest lot first
FifoCost(q, n) == CostFrom(q, 1, n)

Processed == pc \in {"loop", "done"}

\* The SELL fill, the queue it met and the trade it produced, for log entry j
SellOf(j) == sorted[matchLog[j].at]

QueueBefore(j) == LotsGet(matchLog[j].mapBefore, matchLog[j].key)

QueueAfter(j) == LotsGet(matchLog[j].mapAfter, matchLog[j].key)

FullyMatched(j) == SumQty(QueueBefore(j)) >= SellOf(j).qty

Unknown(x) == x.k # "number"

-----------------------------------------------------------------------------
\* C1: every trade has realizedPnl = null exactly when its reasonIfNull is
\* UNKNOWN_COST, and a SELL with unknown fees or tax whose quantity the queue
\* covers has a non-null realizedPnl.
C1_NullIffUnknownCost ==
    \A j \in 1..Len(trades) :
        /\ (trades[j].realizedPnl.k = "null") <=> (trades[j].reasonIfNull = Str("UNKNOWN_COST"))
        /\ trades[j].realizedPnl.k \in {"null", "number"}
        /\ (FullyMatched(j) /\ (Unknown(SellOf(j).fees) \/ Unknown(SellOf(j).tax)))
               => trades[j].realizedPnl.k = "number"
        /\ ~FullyMatched(j) => trades[j].realizedPnl.k = "null"

\* a run that returned a trade with unknown fees and a P&L, and a trade without P&L
C1_Witness ==
    /\ pc = "done"
    /\ \E j \in 1..Len(result.trades) :
          /\ result.trades[j].fees = Null
          /\ result.trades[j].realizedPnl.k = "number"
          /\ result.trades[j].reasonIfNull = NoStr
    /\ \E j \in 1..Len(result.trades) :
          /\ result.trades[j].realizedPnl = Null
          /\ result.trades[j].reasonIfNull = Str("UNKNOWN_COST")

-----------------------------------------------------------------------------
\* C2: a SELL takes from the lots of its key in queue order, the i-th match from
\* the i-th lot, each match being min(remaining sell quantity, lot quantity), so
\* that no lot is touched while an earlier one has quantity left; the cost is the
\* sum of matched quantity x lot price in that order.
C2_FrontFirst ==
    \A j \in 1..Len(matchLog) :
        LET q == QueueBefore(j)
            taken == matchLog[j].taken
            n == SellOf(j).qty
        IN /\ Len(taken) <= Len(q)
           /\ \A i \in 1..Len(taken) :
                 /\ taken[i].src = q[i].src
                 /\ taken[i].qty = ShareOf(q, i, n)
                 /\ i > 1 => taken[i - 1].qty = q[i - 1].qty
           /\ \A i \in (Len(taken) + 1)..Len(q) : ShareOf(q, i, n) = 0
           /\ LET after == QueueAfter(j)
                  drop == Len(q) - Len(after)
              IN /\ drop >= 0
                 /\ \A i \in 1..Len(after) :
                       /\ after[i].src = q[drop + i].src
                       /\ after[i].qty = q[drop + i].qty - ShareOf(q, drop + i, n)
                       /\ after[i].qty > 0
                 /\ \A i \in 1..drop : ShareOf(q, i, n) = q[i].qty
           /\ trades[j].buyPriceAvg.k = "number"
                 => trades[j].buyPriceAvg.num = FifoCost(q, n)
           /\ trades[j].realizedPnl.k = "number"
                 => trades[j].realizedPnl.v =
                        SellOf(j).price * n - FifoCost(q, n)
                          - Coalesce(SellOf(j).fees, 0) - Coalesce(SellOf(j).tax, 0)

\* BUY 100@1000, BUY 100@1500, SELL 150: 100 from the first lot, 50 from the
\* second, cost 175000
C2_Witness ==
    /\ pc = "done"
    /\ Len(matchLog) = 1
    /\ Len(QueueBefore(1)) = 2
    /\ QueueBefore(1)[1].price = 1000 /\ QueueBefore(1)[2].price = 1500
    /\ Len(matchLog[1].taken) = 2
    /\ [i \in 1..2 |-> matchLog[1].taken[i].qty] = <<100, 50>>
    /\ result.trades[1].buyPriceAvg = Quot(175000, 150)
    /\ result.trades[1].realizedPnl = Num(20000)

-----------------------------------------------------------------------------
\* The fill or opening position a lot was made from
Origin(src) == IF src[1] = "op" THEN openingPositions[src[2]] ELSE sorted[src[2]]

\* The (symbol code, account type) pair of a fill or an opening position, an
\* absent account type counted as the empty one
PairOfFill(f) == <<f.symbolCode, Coalesce(f.accountType, "")>>

PairOfSrc(src) ==
    IF src[1] = "op"
    THEN <<openingPositions[src[2]].symbolCode, openingPositions[src[2]].accountType>>
    ELSE PairOfFill(sorted[src[2]])

-----------------------------------------------------------------------------
\* C3: whenever a SELL is matched, every BUY of the input with the same trade
\* date and the same key has been queued before it, i.e. comes earlier in the
\* processing order.
C3_SameDayBuyFirst ==
    \A j \in 1..Len(matchLog) :
        \A b \in 1..Len(sorted) :
            (/\ sorted[b].side = "BUY"
             /\ sorted[b].tradeDate = SellOf(j).tradeDate
             /\ KeyOfFill(sorted[b]) = KeyOfFill(SellOf(j)))
                => b < matchLog[j].at

-----------------------------------------------------------------------------
\* C4: when all fills and opening positions are of one symbol, a SELL takes
\* nothing from a lot made under another account type; it leaves the queues of
\* the other account types as they were; and when its own account type has no
\* lot it is UNKNOWN_COST with the shortfall recorded under its account type.
OneSymbol ==
    \A x \in {fills[i].symbolCode : i \in 1..Len(fills)}
              \cup {openingPositions[i].symbolCode : i \in 1..Len(openingPositions)} :
        \A y \in {fills[i].symbolCode : i \in 1..Len(fills)}
                  \cup {openingPositions[i].symbolCode : i \in 1..Len(openingPositions)} :
            x = y

C4_AccountIsolation ==
    OneSymbol =>
        \A j \in 1..Len(matchLog) :
            LET e == matchLog[j]
                acct == Coalesce(SellOf(j).accountType, "")
            IN /\ \A i \in 1..Len(e.taken) : PairOfSrc(e.taken[i].src)[2] = acct
               /\ \A k \in DOMAIN e.mapBefore :
                     (\E i \in 1..Len(e.mapBefore[k]) :
                          PairOfSrc(e.mapBefore[k][i].src)[2] # acct)
                        => (k \in DOMAIN e.mapAfter /\ e.mapAfter[k] = e.mapBefore[k])
               /\ (\A k \in DOMAIN e.mapBefore :
                      \A i \in 1..Len(e.mapBefore[k]) :
                          PairOfSrc(e.mapBefore[k][i].src)[2] # acct)
                     => /\ trades[j].realizedPnl = Null
                        /\ trades[j].reasonIfNull = Str("UNKNOWN_COST")
                        /\ \E m \in 1..Len(missingCostMap) :
                              /\ missingCostMap[m].accountType = acct
                              /\ missingCostMap[m].symbolCode = SellOf(j).symbolCode
                              /\ missingCostMap[m].shortQty >= SellOf(j).qty
                        /\ \A m \in 1..Len(missingCostMap) :
                              missingCostMap[m].shortQty > 0
                                 => \E t \in 1..Len(matchLog) :
                                       /\ Coalesce(SellOf(t).accountType, "")
                                             = missingCostMap[m].accountType
                                       /\ SumQty(QueueBefore(t)) < SellOf(t).qty

\* a same-day BUY under one account type and SELL under another, of one symbol:
\* the lot is still queued after the SELL, which is UNKNOWN_COST
C4_Witness ==
    /\ pc = "done"
    /\ OneSymbol
    /\ \E j \in 1..Len(matchLog) :
          /\ matchLog[j].taken = <<>>
          /\ result.trades[j].reasonIfNull = Str("UNKNOWN_COST")
          /\ \E k \in DOMAIN matchLog[j].mapAfter :
                /\ k # matchLog[j].key
                /\ matchLog[j].mapAfter[k] # <<>>
                /\ matchLog[j].mapAfter[k][1].src[1] = "fill"
                /\ Origin(matchLog[j].mapAfter[k][1].src).tradeDate = SellOf(j).tradeDate
                /\ Origin(matchLog[j].mapAfter[k][1].src).symbolCode = SellOf(j).symbolCode
          /\ \E m \in 1..Len(result.missingCostSymbols) :
                result.missingCostSymbols[m].accountType = Coalesce(SellOf(j).accountType, "")

-----------------------------------------------------------------------------
\* C5: a SELL takes quantity only from lots made by a fill or opening position
\* with its own symbol code and its own account type, and a missing-cost entry
\* collects the shortfall of SELLs of its own symbol code and account type only.
C5_PairScoped ==
    \A j \in 1..Len(matchLog) :
        /\ \A i \in 1..Len(matchLog[j].taken) :
              PairOfSrc(matchLog[j].taken[i].src) = PairOfFill(SellOf(j))
        /\ \A k \in DOMAIN matchLog[j].mapAfter :
              \A a, b \in 1..Len(matchLog[j].mapAfter[k]) :
                  PairOfSrc(matchLog[j].mapAfter[k][a].src)
                     = PairOfSrc(matchLog[j].mapAfter[k][b].src)
        /\ SumQty(QueueBefore(j)) < SellOf(j).qty
              => \E m \in 1..Len(missingCostMap) :
                    <<missingCostMap[m].symbolCode, missingCostMap[m].accountType>>
                       = PairOfFill(SellOf(j))

-----------------------------------------------------------------------------
IsSell(f) == f.side = "SELL"

Digit(c) == CharRank(c) - 2

\* The calendar date of an ISO date string, as the number yyyymmdd
RECURSIVE DateValue(_, _)
DateValue(d, acc) ==
    IF d = <<>> THEN acc
    ELSE IF Head(d) = "-" THEN DateValue(Tail(d), acc)
    ELSE DateValue(Tail(d), 10 * acc + Digit(Head(d)))

\* C6: the trades are the SELL fills processed so far, one each and in processing
\* order, BUY and OTHER fills giving none; their dates never decrease; a SELL
\* that met no lot is among them with realizedPnl and buyPriceAvg null; the run
\* returns as many trades as the input has SELL fills.
C6_OnePerSell ==
    /\ Processed =>
          LET sells == SelectSeq(SubSeq(sorted, 1, idx - 1), IsSell)
          IN /\ Len(trades) = Len(sells)
             /\ \A j \in 1..Len(trades) :
                   /\ trades[j].side = "SELL"
                   /\ trades[j].tradeDate = sells[j].tradeDate
                   /\ trades[j].symbolCode = sells[j].symbolCode
                   /\ trades[j].accountType = sells[j].accountType
                   /\ trades[j].qty = sells[j].qty
                   /\ trades[j].sellPrice = sells[j].price
                   /\ sells[j] = SellOf(j)
                   /\ QueueBefore(j) = <<>>
                         => /\ trades[j].realizedPnl = Null
                            /\ trades[j].buyPriceAvg = NullQuot
             /\ \A j \in 1..(Len(trades) - 1) :
                   DateValue(trades[j].tradeDate, 0) <= DateValue(trades[j + 1].tradeDate, 0)
    /\ pc = "done" =>
          /\ result.trades = trades
          /\ Len(result.trades) = Cardinality({i \in 1..Len(fills) : fills[i].side = "SELL"})

\* a later SELL given first, an OTHER fill and a SELL that meets no lot: two trades
C6_Witness ==
    /\ pc = "done"
    /\ Len(fills) = 3
    /\ fills[1].side = "SELL" /\ fills[1].tradeDate = D2
    /\ fills[2].side = "OTHER"
    /\ fills[3].side = "SELL" /\ fills[3].tradeDate = D1
    /\ Len(result.trades) = 2
    /\ result.trades[1].tradeDate = D1
    /\ result.trades[1].realizedPnl = Null
    /\ result.trades[1].buyPriceAvg = NullQuot

-----------------------------------------------------------------------------
\* C7: a SELL whose quantity the queue covers has realizedPnl = price x quantity
\* - cost of the lots taken - fees - tax, an unknown fee or tax counting 0, and
\* buyPriceAvg = that cost / quantity.
C7_PnlFormula ==
    \A j \in 1..Len(trades) :
        FullyMatched(j) =>
            LET f == SellOf(j)
                cost == FifoCost(QueueBefore(j), f.qty)
                fee == IF Unknown(f.fees) THEN 0 ELSE f.fees.v
                tax == IF Unknown(f.tax) THEN 0 ELSE f.tax.v
            IN /\ trades[j].realizedPnl = Num(f.price * f.qty - cost - fee - tax)
               /\ trades[j].buyPriceAvg = Quot(cost, f.qty)

\* BUY 2@1, SELL 2@3 with unknown fees and tax 2: P&L 6 - 2 - 0 - 2
C7_Witness ==
    /\ pc = "done"
    /\ \E j \in 1..Len(result.trades) :
          /\ FullyMatched(j)
          /\ SellOf(j).fees = Null /\ SellOf(j).tax = Num(2)
          /\ SellOf(j).qty = 2
          /\ result.trades[j].realizedPnl = Num(2)
          /\ result.trades[j].buyPriceAvg = Quot(2, 2)

-----------------------------------------------------------------------------
\* C8: a SELL larger than what its queue holds still gives a trade, with
\* realizedPnl null and reason UNKNOWN_COST, whatever part was matched;
\* buyPriceAvg is the average price of the whole queue it consumed, and null when
\* the queue was empty.
C8_UnderMatched ==
    /\ Len(trades) = Len(matchLog)
    /\ \A j \in 1..Len(matchLog) :
          ~FullyMatched(j) =>
              LET q == QueueBefore(j)
                  have == SumQty(q)
              IN /\ trades[j].realizedPnl = Null
                 /\ trades[j].reasonIfNull = Str("UNKNOWN_COST")
                 /\ trades[j].buyPriceAvg =
                       IF have > 0 THEN Quot(FifoCost(q, have), have) ELSE NullQuot
                 /\ QueueAfter(j) = <<>>

\* a SELL of 2 that met a single lot of 1
C8_Witness ==
    /\ pc = "done"
    /\ \E j \in 1..Len(result.trades) :
          /\ SellOf(j).qty = 2
          /\ SumQty(QueueBefore(j)) = 1
          /\ result.trades[j].realizedPnl = Null
          /\ result.trades[j].reasonIfNull = Str("UNKNOWN_COST")
          /\ result.trades[j].buyPriceAvg.k = "number"
          /\ result.trades[j].buyPriceAvg.den = 1

-----------------------------------------------------------------------------
\* Unmatched quantity of the j-th processed SELL
ShortOf(j) == Max(0, SellOf(j).qty - SumQty(QueueBefore(j)))

RECURSIVE ShortSum(_, _)
ShortSum(key, j) ==
    IF j = 0 THEN 0
    ELSE (IF KeyOfFill(SellOf(j)) = key THEN ShortOf(j) ELSE 0) + ShortSum(key, j - 1)

EntryKey(e) == makeKey(e.symbolCode, Str(e.accountType))

\* C9: the missing-cost entries have pairwise different keys; a key has an entry
\* exactly when a SELL of that key was under-matched; and the entry's shortQty is
\* the sum of the unmatched quantities of the SELLs of that key.
C9_MissingCost ==
    /\ \A a, b \in 1..Len(missingCostMap) :
          EntryKey(missingCostMap[a]) = EntryKey(missingCostMap[b]) => a = b
    /\ \A m \in 1..Len(missingCostMap) :
          /\ missingCostMap[m].shortQty = ShortSum(EntryKey(missingCostMap[m]), Len(matchLog))
          /\ missingCostMap[m].shortQty > 0
    /\ \A j \in 1..Len(matchLog) :
          ShortOf(j) > 0 =>
              \E m \in 1..Len(missingCostMap) :
                  EntryKey(missingCostMap[m]) = KeyOfFill(SellOf(j))
    /\ pc = "done" =>
          /\ Len(result.missingCostSymbols) = Len(missingCostMap)
          /\ \A m \in 1..Len(missingCostMap) :
                /\ EntryKey(result.missingCostSymbols[m]) = EntryKey(missingCostMap[m])
                /\ result.missingCostSymbols[m].shortQty = missingCostMap[m].shortQty

\* two under-matched SELLs of one key, short by 1 and by 2: one entry, shortQty 3
C9_Witness ==
    /\ pc = "done"
    /\ Len(result.missingCostSymbols) = 1
    /\ result.missingCostSymbols[1].shortQty = 3
    /\ \E a, b \in 1..Len(matchLog) : ShortOf(a) = 1 /\ ShortOf(b) = 2

-----------------------------------------------------------------------------
\* Number of lots in the map
RECURSIVE LotCount(_, _)
LotCount(m, keys) ==
    IF keys = {} THEN 0
    ELSE LET k == CHOOSE x \in keys : TRUE
         IN Len(m[k]) + LotCount(m, keys \ {k})

\* C10: before any fill is processed every opening position is one lot of its
\* key's queue (its quantity, price = its average cost, fees 0); no lot of a BUY
\* is ever queued ahead of a lot of an opening position; and a SELL takes from a
\* BUY's lot only after every opening-position lot of its queue is used up.
C10_OpeningFirst ==
    /\ pc = "seeded" =>
          /\ LotCount(lots, DOMAIN lots) = Len(openingPositions)
          /\ \A n \in 1..Len(openingPositions) :
                LET op == openingPositions[n]
                    key == makeKey(op.symbolCode, Str(op.accountType))
                IN /\ key \in DOMAIN lots
                   /\ \E i \in 1..Len(lots[key]) :
                         lots[key][i] = [qty |-> op.qty, price |-> op.avgCost,
                                         fees |-> Num(0), src |-> <<"op", n>>]
    /\ \A k \in DOMAIN lots :
          \A a, b \in 1..Len(lots[k]) :
              (lots[k][a].src[1] = "fill" /\ lots[k][b].src[1] = "op") => b < a
    /\ \A j \in 1..Len(matchLog) :
          LET q == QueueBefore(j)
              taken == matchLog[j].taken
          IN \A i \in 1..Len(taken) :
                taken[i].src[1] = "fill" =>
                    \A l \in 1..Len(q) :
                        q[l].src[1] = "op" =>
                            \E h \in 1..(i - 1) :
                                taken[h].src = q[l].src /\ taken[h].qty = q[l].qty

\* an opening position of 2 and an earlier-dated BUY of 1, SELL 3: the opening
\* lot is taken first, then the BUY's
C10_Witness ==
    /\ pc = "done"
    /\ Len(openingPositions) = 1
    /\ \E j \in 1..Len(matchLog) :
          /\ Len(matchLog[j].taken) = 2
          /\ matchLog[j].taken[1].src = <<"op", 1>>
          /\ matchLog[j].taken[1].qty = 2
          /\ matchLog[j].taken[1].price = openingPositions[1].avgCost
          /\ matchLog[j].taken[2].src[1] = "fill"
          /\ DateValue(Origin(matchLog[j].taken[2].src).tradeDate, 0)
                < DateValue(SellOf(j).tradeDate, 0)

-----------------------------------------------------------------------------
\* C12: every trade has feesEstimated true exactly when the fees or the tax of
\* its SELL fill is null, for fully matched and under-matched SELLs alike and
\* also when the other of the two is 0 or a number; a null fee or tax never makes
\* realizedPnl null: a SELL its queue covers has a number.
C12_FeesEstimated ==
    \A j \in 1..Len(trades) :
        /\ trades[j].feesEstimated \in BOOLEAN
        /\ trades[j].feesEstimated <=> (SellOf(j).fees = Null \/ SellOf(j).tax = Null)
        /\ (trades[j].feesEstimated /\ FullyMatched(j)) => trades[j].realizedPnl.k = "number"
        /\ (trades[j].realizedPnl = Null) <=> ~FullyMatched(j)

\* one run with an under-matched SELL flagged for its null tax only, and a fully
\* matched SELL with both null, flagged and with a P&L
C12_Witness ==
    /\ pc = "done"
    /\ \E j \in 1..Len(result.trades) :
          /\ ~FullyMatched(j)
          /\ SellOf(j).fees = Num(1) /\ SellOf(j).tax = Null
          /\ result.trades[j].feesEstimated
          /\ result.trades[j].realizedPnl = Null
    /\ \E j \in 1..Len(result.trades) :
          /\ FullyMatched(j)
          /\ SellOf(j).fees = Null /\ SellOf(j).tax = Null
          /\ result.trades[j].feesEstimated
          /\ result.trades[j].realizedPnl.k = "number"

-----------------------------------------------------------------------------
\* C16: an absent and an empty account type are one partition of a symbol. A
\* SELL takes from a lot of its own symbol only when both have no account type
\* (absent or "") or both have the same non-empty one; and when a SELL without
\* account type is matched, every lot of its symbol made without account type,
\* by a BUY or an opening position, absent or "", is in the queue it takes from,
\* the first of them being taken.
C16_NoAccountBucket ==
    \A j \in 1..Len(matchLog) :
        LET e == matchLog[j]
            sell == SellOf(j)
            acct == Coalesce(sell.accountType, "")
        IN /\ \A i \in 1..Len(e.taken) :
                 PairOfSrc(e.taken[i].src)[1] = sell.symbolCode
                    => PairOfSrc(e.taken[i].src)[2] = acct
           /\ acct = "" =>
                 /\ \A k \in DOMAIN e.mapBefore :
                       \A i \in 1..Len(e.mapBefore[k]) :
                           PairOfSrc(e.mapBefore[k][i].src) = <<sell.symbolCode, "">>
                              => k = e.key
                 /\ QueueBefore(j) # <<>>
                       => /\ e.taken # <<>>
                          /\ e.taken[1].src = QueueBefore(j)[1].src

\* an opening position with account type "" is consumed by a SELL with none, the
\* lot of a BUY with none by a SELL with "", and the lot of account type "A" is
\* left as it was
C16_Witness ==
    /\ pc = "done"
    /\ Len(openingPositions) = 2
    /\ openingPositions[1].accountType = "A" /\ openingPositions[2].accountType = ""
    /\ \E a, b \in 1..Len(matchLog) :
          /\ SellOf(a).accountType = NoStr
          /\ Len(matchLog[a].taken) = 1
          /\ matchLog[a].taken[1].src = <<"op", 2>>
          /\ SellOf(b).accountType = Str("")
          /\ Len(matchLog[b].taken) = 1
          /\ matchLog[b].taken[1].src[1] = "fill"
          /\ Origin(matchLog[b].taken[1].src).accountType = NoStr
    /\ \E k \in DOMAIN lots :
          /\ Len(lots[k]) = 1
          /\ lots[k][1].src = <<"op", 1>>
          /\ lots[k][1].qty = openingPositions[1].qty

-----------------------------------------------------------------------------
\* C14: no step of a call changes its arguments: the fills array keeps its order
\* and its elements, the opening positions keep quantity and cost, while the
\* sorted copy is reordered and the lots made from them are shrunk and removed.
C14_InputsUnchanged ==
    [][fills' = fills /\ openingPositions' = openingPositions]_vars

\* a call that returned after sorting the copy into another order than the
\* argument, removing the lot of one opening position and shrinking another's:
\* the arguments recorded at the return are the opening positions with their
\* quantities and the fills in the order given
C14_Witness ==
    /\ pc = "done"
    /\ sorted # fills
    /\ Len(fills) = 2 /\ fills[1].side = "SELL" /\ fills[2].side = "BUY"
    /\ \E j \in 1..Len(matchLog) :
          /\ Len(matchLog[j].taken) = 2
          /\ matchLog[j].taken[1].src = <<"op", 2>>
          /\ matchLog[j].taken[1].qty = openingPositions[2].qty
    /\ \E k \in DOMAIN lots :
          /\ lots[k] # <<>>
          /\ lots[k][1].src = <<"op", 1>>
          /\ lots[k][1].qty < openingPositions[1].qty
    /\ calls[1].fills = fills
    /\ calls[1].openingPositions = openingPositions

-----------------------------------------------------------------------------
\* C13: of the calls that have returned, in any sequence, any two with equal
\* fills and equal opening positions returned equal trades and equal
\* missingCostSymbols, whatever calls came before or between them.
C13_NoStateBetweenCalls ==
    \A a, b \in 1..Len(calls) :
        (/\ calls[a].fills = calls[b].fills
         /\ calls[a].openingPositions = calls[b].openingPositions)
            => /\ calls[a].result.trades = calls[b].result.trades
               /\ calls[a].result.missingCostSymbols = calls[b].result.missingCostSymbols

\* a lone SELL, then a lone BUY whose lot was still queued when the call returned,
\* then the lone SELL again: UNKNOWN_COST with shortfall 1 both times
C13_Witness ==
    /\ pc = "done"
    /\ Len(calls) = 3
    /\ calls[1].fills = calls[3].fills
    /\ calls[1].openingPositions = <<>> /\ calls[3].openingPositions = <<>>
    /\ Len(calls[1].fills) = 1 /\ calls[1].fills[1].side = "SELL"
    /\ Len(calls[2].fills) = 1 /\ calls[2].fills[1].side = "BUY"
    /\ calls[2].openingPositions = <<>>
    /\ Len(calls[3].result.trades) = 1
    /\ calls[3].result.trades[1].realizedPnl = Null
    /\ Len(calls[3].result.missingCostSymbols) = 1
    /\ calls[3].result.missingCostSymbols[1].shortQty = 1
    /\ calls[3].result = calls[1].result

-----------------------------------------------------------------------------
\* The opening position the missing-cost form submits for entry e, at cost c
PositionFor(e, c) ==
    [symbolCode |-> e.symbolCode, symbolName |-> e.symbolName, qty |-> e.shortQty,
     avgCost |-> c, accountType |-> e.accountType]

AvgCosts == {1, 1000}

\* C11: when a run has returned a missing-cost entry with shortQty S for a key,
\* the run on the same fills with one opening position of that key, quantity S
\* and any positive average cost, added to the opening positions returns a
\* non-null realizedPnl for every SELL of the key and no missing-cost entry for
\* the key.  (A run returns what the function gives for its arguments.)
C11_ShortQtyResolves ==
    pc = "done" =>
        /\ result = calculateRealizedPnl(fills, openingPositions)
        /\ \A m \in 1..Len(result.missingCostSymbols) :
              \A c \in AvgCosts :
                  LET e == result.missingCostSymbols[m]
                      k == EntryKey(e)
                      r == calculateRealizedPnl(
                               fills, Append(openingPositions, PositionFor(e, c)))
                  IN /\ Len(r.trades) = Len(result.trades)
                     /\ \A t \in 1..Len(r.trades) :
                           makeKey(r.trades[t].symbolCode, r.trades[t].accountType) = k
                              => /\ r.trades[t].realizedPnl.k = "number"
                                 /\ r.trades[t].reasonIfNull = NoStr
                     /\ \A x \in 1..Len(r.missingCostSymbols) :
                           EntryKey(r.missingCostSymbols[x]) # k

\* an opening position of 1 and two SELLs of 3 and 2 of its key: shortQty 4, and
\* with a position of 4 added both SELLs have a P&L and nothing is missing
C11_Witness ==
    /\ pc = "done"
    /\ Len(openingPositions) = 1 /\ openingPositions[1].qty = 1
    /\ Len(result.trades) = 2
    /\ result.trades[1].realizedPnl = Null /\ result.trades[2].realizedPnl = Null
    /\ Len(result.missingCostSymbols) = 1
    /\ result.missingCostSymbols[1].shortQty = 4
    /\ LET r == calculateRealizedPnl(
                     fills, Append(openingPositions,
                                   PositionFor(result.missingCostSymbols[1], 1)))
       IN /\ r.missingCostSymbols = <<>>
          /\ r.trades[1].realizedPnl.k = "number"
          /\ r.trades[2].realizedPnl.k = "number"

-----------------------------------------------------------------------------
NotOther(f) == f.side \in {"BUY", "SELL"}

\* C15: the trades and missingCostSymbols a run returns are those the function
\* gives for the same fills with the OTHER fills removed (the order of the
\* remaining fills kept) and the same opening positions.
C15_OtherIgnored ==
    pc = "done" =>
        LET r == calculateRealizedPnl(SelectSeq(fills, NotOther), openingPositions)
        IN /\ result.trades = r.trades
           /\ result.missingCostSymbols = r.missingCostSymbols

-----------------------------------------------------------------------------
\* A line has a column name when one of its fields, unquoted and trimmed, is it
HasAllNames(line) ==
    LET fields == parseCSVLine(line)
    IN \A h \in {TradeDateCol, SymbolCodeCol, QtyCol, PriceCol} :
          \E n \in 1..Len(fields) : fields[n] = h

\* C17: when no line of the text has all four required column names, parseCSV
\* never enters the loop over the data rows, and it returns no fill, exactly one
\* error, and totalRows = successRows = failedRows = unknownFieldCount = 0.
C17_NoHeader ==
    (/\ parser.pc \in {"noheader", "rows", "done"}
     /\ \A n \in 1..Len(parser.lines) : ~HasAllNames(parser.lines[n]))
        => /\ parser.pc # "rows"
           /\ parser.headerIndex = -1
           /\ parser.fills = <<>> /\ parser.errors = <<>>
           /\ parser.totalRows = 0 /\ parser.successRows = 0
           /\ parser.failedRows = 0 /\ parser.unknownFieldCount = 0
           /\ parser.pc = "done"
                 => /\ parser.result.fills = <<>>
                    /\ Len(parser.result.errors) = 1
                    /\ parser.result.errors[1].kind = "header"
                    /\ parser.result.totalRows = 0
                    /\ parser.result.successRows = 0
                    /\ parser.result.failedRows = 0
                    /\ parser.result.unknownFieldCount = 0

\* a text of a header without the price column, a well-formed data row and an
\* empty line: one error and nothing else
C17_Witness ==
    /\ parser.pc = "done"
    /\ parser.lines = <<PartHeaderLine, GoodRow, <<>>>>
    /\ parser.result.fills = <<>>
    /\ Len(parser.result.errors) = 1
    /\ parser.result.totalRows = 0

-----------------------------------------------------------------------------
(* Vocabulary of the properties of the parser: what the line with 0-based   *)
(* index j holds, read off the line and the header row.                     *)

FieldsOf(j) == parseCSVLine(trim(parser.lines[j + 1]))

CellOf(j, name) == Coalesce(rawGet(parser.headers, FieldsOf(j), name), <<>>)

IsBlank(j) == trim(parser.lines[j + 1]) = <<>>

ColumnsBad(j) == Len(FieldsOf(j)) < Len(parser.headers)

DateBad(j) == parseJapaneseDate(CellOf(j, TradeDateCol)).k = "null"

SymbolBad(j) == CellOf(j, SymbolCodeCol) = <<>>

QtyBad(j) ==
    LET q == parseNumber(CellOf(j, QtyCol)) IN q.k = "null" \/ ~(q.v > 0)

PriceBad(j) ==
    LET x == parseNumber(CellOf(j, PriceCol)) IN x.k = "null" \/ ~(x.v >= 0)

\* What the checks find on line j, each read off the fields of the line
LineOf(j) ==
    LET fields == FieldsOf(j)
        cell(name) == Coalesce(rawGet(parser.headers, fields, name), <<>>)
        date == parseJapaneseDate(cell(TradeDateCol))
        qty == parseNumber(cell(QtyCol))
        price == parseNumber(cell(PriceCol))
    IN [blank |-> IsBlank(j),
        count |-> Len(fields),
        rawDate |-> cell(TradeDateCol),
        date |-> date,
        symbolCode |-> cell(SymbolCodeCol),
        rawQty |-> cell(QtyCol),
        qty |-> qty,
        rawPrice |-> cell(PriceCol),
        price |-> price,
        columnsBad |-> Len(fields) < Len(parser.headers),
        dateBad |-> date.k = "null",
        symbolBad |-> cell(SymbolCodeCol) = <<>>,
        qtyBad |-> qty.k = "null" \/ ~(qty.v > 0),
        priceBad |-> price.k = "null" \/ ~(price.v >= 0)]

\* The lines the data loop has dealt with
ProcessedLines == {j \in 0..(Len(parser.lines) - 1) : parser.headerIndex < j /\ j < parser.i}

ErrorsAt(j) == {n \in 1..Len(parser.errors) : parser.errors[n].line = j + 1}

FillsAt(j) == {n \in 1..Len(parser.fills) : parser.fills[n].line = j + 1}

InDataLoop == parser.pc \in {"rows", "done"} /\ parser.headerIndex >= 0

\* C18: of every non-blank line after the header that the loop has dealt with,
\* the checks column count, trade date, symbol code, quantity, price are applied
\* in this order: the first that fails leaves exactly one error, with the
\* 1-based number of the line, the name of that check and the value it found, and
\* no fill; a line that passes all leaves one fill and no error; failedRows
\* counts the rejected lines; and no line is left out: at the return the loop
\* has dealt with every line after the header.
C18_ChecksInOrder ==
    InDataLoop =>
        /\ \A j \in ProcessedLines :
              LET l == LineOf(j)
                  expected ==
                      IF l.columnsBad THEN "columns"
                      ELSE IF l.dateBad THEN "date"
                      ELSE IF l.symbolBad THEN "symbol"
                      ELSE IF l.qtyBad THEN "qty"
                      ELSE IF l.priceBad THEN "price"
                      ELSE "none"
                  cell == [columns |-> ToDigits(l.count) \o <<"/">>
                                          \o ToDigits(Len(parser.headers)),
                           date |-> l.rawDate,
                           symbol |-> <<>>,
                           qty |-> l.rawQty,
                           price |-> l.rawPrice]
              IN IF l.blank THEN ErrorsAt(j) = {} /\ FillsAt(j) = {}
                 ELSE IF expected = "none"
                 THEN ErrorsAt(j) = {} /\ Cardinality(FillsAt(j)) = 1
                 ELSE /\ FillsAt(j) = {}
                      /\ Cardinality(ErrorsAt(j)) = 1
                      /\ \A n \in ErrorsAt(j) :
                            /\ parser.errors[n].kind = expected
                            /\ parser.errors[n].value = cell[expected]
        /\ parser.failedRows = Cardinality({j \in ProcessedLines : ErrorsAt(j) # {}})
        /\ Len(parser.errors) = parser.failedRows
        /\ \A n \in 1..Len(parser.errors) :
              (parser.errors[n].line - 1) \in ProcessedLines
        /\ \A a, b \in 1..Len(parser.errors) :
              a < b => parser.errors[a].line < parser.errors[b].line
        /\ parser.pc = "done" => parser.i = Len(parser.lines)

\* after the header: a row with month 13 and quantity -5 (rejected for its
\* date), a row that passes, and a row with quantity x and price -1 (rejected
\* for its quantity): errors for lines 2 and 4, one fill from line 3
C18_Witness ==
    /\ parser.pc = "done"
    /\ Len(parser.lines) = 4
    /\ parser.headerIndex = 0
    /\ DateBad(1) /\ QtyBad(1)
    /\ QtyBad(3) /\ PriceBad(3)
    /\ Len(parser.result.errors) = 2
    /\ parser.result.errors[1] = ParseError(2, "date", Chars("2024/13/01"))
    /\ parser.result.errors[2] = ParseError(4, "qty", Chars("x"))
    /\ parser.result.failedRows = 2
    /\ Len(parser.result.fills) = 1
    /\ parser.result.fills[1].line = 3

\* The fills a caller of parseCSV can see: the list being built and, after the
\* return, the list of the result
VisibleFills == IF parser.pc = "done" THEN {parser.fills, parser.result.fills}
                ELSE {parser.fills}

\* C19: every fill of parseCSV has quantity > 0, price >= 0, a non-empty symbol
\* code and as trade date the date parsed from its line's date cell; a line whose
\* date, symbol code, quantity or price fails gives no fill and exactly one
\* error.
C19_FillsValid ==
    InDataLoop =>
        /\ \A fs \in VisibleFills : \A n \in 1..Len(fs) :
              LET f == fs[n]
                  j == f.line - 1
                  l == LineOf(j)
              IN /\ f.qty > 0
                 /\ f.price >= 0
                 /\ f.symbolCode # <<>>
                 /\ j \in ProcessedLines
                 /\ l.date.k = "string" /\ f.tradeDate = l.date.v
                 /\ f.qty = l.qty.v
                 /\ f.price = l.price.v
                 /\ f.symbolCode = l.symbolCode
        /\ \A j \in ProcessedLines :
              LET l == LineOf(j)
              IN (~l.blank /\ (l.dateBad \/ l.symbolBad \/ l.qtyBad \/ l.priceBad))
                 => /\ Cardinality(ErrorsAt(j)) = 1
                    /\ \A fs \in VisibleFills :
                          \A n \in 1..Len(fs) : fs[n].line # j + 1

\* a returned result with a fill of price 0 (the least price accepted) while a
\* row of quantity 0 was rejected with the quantity error
C19_Witness ==
    /\ parser.pc = "done"
    /\ \E n \in 1..Len(parser.result.fills) :
          parser.result.fills[n].price = 0 /\ parser.result.fills[n].qty > 0
    /\ \E n \in 1..Len(parser.result.errors) :
          /\ parser.result.errors[n].kind = "qty"
          /\ parser.result.errors[n].value = Chars("0")

\* C20: parseCSV returns its fills in ascending order of their calendar trade
\* dates, fills of one trade date in the order of their lines.
C20_SortedByDate ==
    parser.pc = "done" =>
        \A a, b \in 1..Len(parser.result.fills) :
            a < b =>
               LET da == DateValue(parser.result.fills[a].tradeDate, 0)
                   db == DateValue(parser.result.fills[b].tradeDate, 0)
               IN /\ da <= db
                  /\ da = db => parser.result.fills[a].line < parser.result.fills[b].line

-----------------------------------------------------------------------------
\* a string of the form YYYY-MM-DD: four digits, two digits, two digits
IsIsoForm(d) ==
    /\ Len(d) = 10
    /\ d[5] = "-" /\ d[8] = "-"
    /\ \A n \in {1, 2, 3, 4, 6, 7, 9, 10} : IsDigit(d[n])

\* C21: every date parseJapaneseDate accepts, of the date cells the loop has
\* dealt with and of the fills, is a string of exactly the form YYYY-MM-DD.
C21_IsoForm ==
    InDataLoop =>
        /\ \A j \in ProcessedLines :
              LET date == parseJapaneseDate(CellOf(j, TradeDateCol))
              IN (~IsBlank(j) /\ ~ColumnsBad(j) /\ date.k = "string")
                    => IsIsoForm(date.v)
        /\ \A n \in 1..Len(parser.fills) : IsIsoForm(parser.fills[n].tradeDate)

-----------------------------------------------------------------------------
\* The cells that mark an unknown amount (empty, two hyphens, one hyphen, the
\* dash character) and one that is no number
UnknownCells == {<<>>, Chars("--"), Chars("-"), <<"dash">>, Chars("x")}

NullCount(fs) ==
    Cardinality({n \in 1..Len(fs) : fs[n].fees = Null})
        + Cardinality({n \in 1..Len(fs) : fs[n].tax = Null})

\* C22: a line that passes the five checks gives a fill whatever its fees and
\* tax cells hold; a cell that is empty, "--", "-", the dash character or no
\* number gives null, any other cell of the model its number; unknownFieldCount
\* is the number of fills with null fees plus the number with null tax.
C22_UnknownFields ==
    InDataLoop =>
        /\ \A j \in ProcessedLines :
              LET l == LineOf(j)
                  fees == CellOf(j, FeesCol)
                  tax == CellOf(j, TaxCol)
              IN (~l.blank /\ ~l.columnsBad /\ ~l.dateBad /\ ~l.symbolBad
                     /\ ~l.qtyBad /\ ~l.priceBad)
                 => /\ Cardinality(FillsAt(j)) = 1
                    /\ \A n \in FillsAt(j) :
                          /\ parser.fills[n].fees.k \in {"null", "number"}
                          /\ parser.fills[n].tax.k \in {"null", "number"}
                          /\ fees \in UnknownCells <=> parser.fills[n].fees = Null
                          /\ tax \in UnknownCells <=> parser.fills[n].tax = Null
        /\ parser.unknownFieldCount = NullCount(parser.fills)
        /\ parser.pc = "done"
              => parser.result.unknownFieldCount = NullCount(parser.result.fills)

\* a returned result where a rejected row with both cells "--" added nothing, a
\* row with "--" and "-" added two and a row with the dash character and an
\* empty cell two more
C22_Witness ==
    /\ parser.pc = "done"
    /\ Len(parser.lines) = 4
    /\ CellOf(1, FeesCol) = Chars("--") /\ CellOf(1, QtyCol) = Chars("0")
    /\ CellOf(2, FeesCol) = Chars("--") /\ CellOf(2, TaxCol) = Chars("-")
    /\ CellOf(3, FeesCol) = <<"dash">> /\ CellOf(3, TaxCol) = <<>>
    /\ Len(parser.result.fills) = 2
    /\ parser.result.failedRows = 1
    /\ parser.result.unknownFieldCount = 4

-----------------------------------------------------------------------------
\* The fills state after the files of a list were loaded one after another
RECURSIVE LoadedInOrder(_)
LoadedInOrder(files) ==
    IF files = <<>> THEN <<>>
    ELSE setFills(LoadedInOrder(SubSeq(files, 1, Len(files) - 1)),
                  files[Len(files)].result.fills)

\* C23: when two files A and B have been loaded, A first, the engine's result on
\* the fills state (no filter, no opening position) is the result it gives on
\* the fills state of loading B first.
C23_LoadOrder ==
    (/\ Len(loadLog) = 2
     /\ loadLog[1].op = "load" /\ loadLog[2].op = "load")
        => LET A == loadLog[1].file
               B == loadLog[2].file
           IN /\ app.fills = LoadedInOrder(<<A, B>>)
              /\ calculateRealizedPnl(app.fills, <<>>)
                    = calculateRealizedPnl(LoadedInOrder(<<B, A>>), <<>>)

-----------------------------------------------------------------------------
(* Vocabulary of the properties of the aggregation functions *)

HasPnl(t) == t.realizedPnl # Null

\* the positions of the trades with a P&L that satisfies a condition
Where(ts, Cond(_)) == {n \in 1..Len(ts) : HasPnl(ts[n]) /\ Cond(ts[n].realizedPnl.v)}

\* the sum of the P&L over a set of positions
RECURSIVE SumAt(_, _)
SumAt(ts, S) ==
    IF S = {} THEN 0
    ELSE LET n == CHOOSE x \in S : TRUE
         IN ts[n].realizedPnl.v + SumAt(ts, S \ {n})

\* C24: the summary of a trade list counts every trade once as calculable or
\* uncalculable and every calculable trade once as win, loss or draw; totalPnl
\* is the sum of the non-null P&L values and equals totalProfit + totalLoss,
\* with totalProfit >= 0 >= totalLoss; removing the trades with null P&L changes
\* none of the amounts.
C24_SummaryPartition ==
    stats.summary # NotComputed =>
        LET s == stats.summary.v
            ts == stats.trades
            AnyPnl(x) == TRUE
            Pos(x) == x > 0
            Neg(x) == x < 0
            Zero(x) == x = 0
            r == computeSummary(SelectSeq(ts, HasPnl))
        IN /\ s.calculableCount = Cardinality(Where(ts, AnyPnl))
           /\ s.calculableCount + s.uncalculableCount = Len(ts)
           /\ s.winCount = Cardinality(Where(ts, Pos))
           /\ s.loseCount = Cardinality(Where(ts, Neg))
           /\ s.drawCount = Cardinality(Where(ts, Zero))
           /\ s.winCount + s.loseCount + s.drawCount = s.calculableCount
           /\ s.totalPnl = SumAt(ts, Where(ts, AnyPnl))
           /\ s.totalProfit = SumAt(ts, Where(ts, Pos))
           /\ s.totalLoss = SumAt(ts, Where(ts, Neg))
           /\ s.totalPnl = s.totalProfit + s.totalLoss
           /\ s.totalLoss <= 0 /\ s.totalProfit >= 0
           /\ r = [s EXCEPT !.uncalculableCount = 0]

\* the summary of a trade without P&L, a loss of 2, a draw: one uncalculable,
\* one loss, one draw, total -2
C24_Witness ==
    /\ stats.summary # NotComputed
    /\ Len(stats.trades) = 3
    /\ stats.trades[1].realizedPnl = Null
    /\ stats.trades[2].realizedPnl = Num(-2)
    /\ stats.trades[3].realizedPnl = Num(0)
    /\ stats.summary.v.uncalculableCount = 1
    /\ stats.summary.v.loseCount = 1
    /\ stats.summary.v.drawCount = 1
    /\ stats.summary.v.winCount = 0
    /\ stats.summary.v.totalPnl = -2

\* the calculable trades in ascending order of their dates, trades of one date
\* in the order of the list
RECURSIVE ByDate(_)
ByDate(ts) ==
    IF ts = <<>> THEN <<>>
    ELSE LET least == CHOOSE n \in 1..Len(ts) :
                          \A m \in 1..Len(ts) :
                              \/ DateValue(ts[n].tradeDate, 0) < DateValue(ts[m].tradeDate, 0)
                              \/ /\ DateValue(ts[n].tradeDate, 0) = DateValue(ts[m].tradeDate, 0)
                                 /\ n <= m
         IN <<ts[least]>> \o ByDate(SubSeq(ts, 1, least - 1) \o SubSeq(ts, least + 1, Len(ts)))

\* cumulative P&L after the first k trades
CumAt(ts, k) == SumAt(ts, 1..k)

\* the running peak after the first k trades, 0 at the start
PeakAt(ts, k) == CHOOSE x \in {0} \cup {CumAt(ts, i) : i \in 1..k} :
                     \A i \in 0..k : CumAt(ts, i) <= x

\* C25: maxDrawdown is the greatest value, over the prefixes of the calculable
\* trades in ascending date order, of the running peak of the cumulative P&L
\* (0 at the start) minus the cumulative P&L; it is never negative, and 0 when
\* the cumulative P&L never falls below an earlier peak.
C25_MaxDrawdown ==
    stats.summary # NotComputed =>
        LET ts == ByDate(SelectSeq(stats.trades, HasPnl))
            dd(k) == PeakAt(ts, k) - CumAt(ts, k)
            m == stats.summary.v.maxDrawdown
        IN /\ \A k \in 0..Len(ts) : dd(k) <= m
           /\ \E k \in 0..Len(ts) : dd(k) = m
           /\ m >= 0
           /\ (\A k \in 0..Len(ts) : CumAt(ts, k) >= PeakAt(ts, k)) => m = 0

\* a loss of 2 dated after a gain of 1 and a second loss of 2, given first:
\* in date order the cumulative P&L goes 1, -1, -3 and the drawdown is 4
C25_Witness ==
    /\ stats.summary # NotComputed
    /\ Len(stats.trades) = 3
    /\ stats.trades[1].realizedPnl = Num(-2) /\ stats.trades[1].tradeDate = D2
    /\ stats.trades[2].realizedPnl = Num(1) /\ stats.trades[2].tradeDate = D1
    /\ stats.trades[3].realizedPnl = Num(-2) /\ stats.trades[3].tradeDate = D1
    /\ stats.summary.v.maxDrawdown = 4

\* C26: the series has one point per trade with non-null P&L; its dates are
\* those of these trades in ascending order (trades of one date in the order of
\* the list); each point's cumPnl is the sum of the P&L of the trades up to it;
\* the last point's cumPnl is the totalPnl of computeSummary for the same trades.
C26_CumulativeSeries ==
    stats.series # NotComputed =>
        LET series == stats.series.v
            ts == ByDate(SelectSeq(stats.trades, HasPnl))
        IN /\ Len(series) = Cardinality({n \in 1..Len(stats.trades) :
                                            HasPnl(stats.trades[n])})
           /\ Len(series) = Len(ts)
           /\ \A n \in 1..Len(series) :
                 /\ series[n].date = ts[n].tradeDate
                 /\ series[n].cumPnl = CumAt(ts, n)
           /\ \A n \in 1..(Len(series) - 1) :
                 DateValue(series[n].date, 0) <= DateValue(series[n + 1].date, 0)
           /\ Len(series) > 0
                 => series[Len(series)].cumPnl = computeSummary(stats.trades).totalPnl
           /\ (Len(series) > 0 /\ stats.summary # NotComputed)
                 => series[Len(series)].cumPnl = stats.summary.v.totalPnl

\* the series of a gain of 1 dated after a trade without P&L and a loss of 2:
\* two points, -2 and -1, and the summary's totalPnl is -1
C26_Witness ==
    /\ stats.series # NotComputed /\ stats.summary # NotComputed
    /\ Len(stats.trades) = 3
    /\ stats.trades[1].realizedPnl = Num(1) /\ stats.trades[1].tradeDate = D2
    /\ stats.trades[2].realizedPnl = Null
    /\ stats.trades[3].realizedPnl = Num(-2) /\ stats.trades[3].tradeDate = D1
    /\ stats.series.v = <<[date |-> D1, cumPnl |-> -2], [date |-> D2, cumPnl |-> -1]>>
    /\ stats.summary.v.totalPnl = -1

RECURSIVE SumSeq(_)
SumSeq(xs) == IF xs = <<>> THEN 0 ELSE Head(xs) + SumSeq(Tail(xs))

\* C27: the symbol summaries have one entry per symbol code that occurs in the
\* trades, whatever the account types; an entry counts all trades of its code
\* and sums their non-null P&L; the entries are in descending order of totalPnl;
\* their totalPnl sum to the totalPnl of computeSummary and their tradeCount to
\* the number of trades.
C27_SymbolSummaries ==
    stats.symbolSummaries # NotComputed =>
        LET es == stats.symbolSummaries.v
            ts == stats.trades
            OfCode(c) == {n \in 1..Len(ts) : ts[n].symbolCode = c}
        IN /\ {es[n].symbolCode : n \in 1..Len(es)}
                 = {ts[n].symbolCode : n \in 1..Len(ts)}
           /\ \A a, b \in 1..Len(es) : es[a].symbolCode = es[b].symbolCode => a = b
           /\ \A n \in 1..Len(es) :
                 /\ es[n].tradeCount = Cardinality(OfCode(es[n].symbolCode))
                 /\ es[n].totalPnl
                       = SumAt(ts, {m \in OfCode(es[n].symbolCode) : HasPnl(ts[m])})
           /\ \A n \in 1..(Len(es) - 1) : es[n].totalPnl >= es[n + 1].totalPnl
           /\ SumSeq([n \in 1..Len(es) |-> es[n].totalPnl]) = computeSummary(ts).totalPnl
           /\ SumSeq([n \in 1..Len(es) |-> es[n].tradeCount]) = Len(ts)

\* symbol 1 with a loss of 2 in account A and a gain of 3 in account B, given
\* around a gain of 3 of symbol 2: two entries, symbol 2 first
C27_Witness ==
    /\ stats.symbolSummaries # NotComputed
    /\ Len(stats.trades) = 3
    /\ stats.trades[1] = Trade(D1, "1", Str("A"), Num(-2))
    /\ stats.trades[2] = Trade(D1, "2", Str("A"), Num(3))
    /\ stats.trades[3] = Trade(D1, "1", Str("B"), Num(3))
    /\ Len(stats.symbolSummaries.v) = 2
    /\ stats.symbolSummaries.v[1].symbolCode = "2"
    /\ stats.symbolSummaries.v[1].totalPnl = 3
    /\ stats.symbolSummaries.v[2].symbolCode = "1"
    /\ stats.symbolSummaries.v[2].totalPnl = 1
    /\ stats.symbolSummaries.v[2].tradeCount = 2

-----------------------------------------------------------------------------
\* C28: every trade whose realized P&L was computed with the fees or the tax of
\* its SELL fill unknown (null or absent), hence counted as 0, has feesEstimated
\* true; no trade has fees null or tax null, a realized P&L and feesEstimated
\* false.
C28_NoSilentZero ==
    \A j \in 1..Len(trades) :
        /\ (/\ trades[j].realizedPnl # Null
            /\ (SellOf(j).fees.k # "number" \/ SellOf(j).tax.k # "number"))
              => trades[j].feesEstimated
        /\ ~(/\ (trades[j].fees = Null \/ trades[j].tax = Null)
             /\ trades[j].realizedPnl # Null
             /\ ~trades[j].feesEstimated)

-----------------------------------------------------------------------------
\* the fills with the fees and the tax of every BUY fill replaced
WithBuyFees(f, fees, tax) ==
    [n \in 1..Len(f) |->
        IF f[n].side = "BUY" THEN [f[n] EXCEPT !.fees = fees, !.tax = tax] ELSE f[n]]

\* the data of a lot: its history field left out
LotData(lot) == [qty |-> lot.qty, price |-> lot.price, fees |-> lot.fees]

\* C29: the step of a BUY fill leaves trades and missing-cost entries as they
\* are and changes the lot map only by one lot (quantity, price and fee of the
\* fill) more at the tail of the queue of the fill's key; and the returned
\* trades and missing-cost entries are those of the run on the same fills with
\* the fees and tax of every BUY fill replaced by other numbers or by unknown.
C29_BuyOnlyQueues ==
    /\ [](pc = "done" =>
             \A ft \in {<<Num(7), Num(9)>>, <<Null, Undefined>>} :
                 calculateRealizedPnl(WithBuyFees(fills, ft[1], ft[2]), openingPositions)
                    = result)
    /\ [][(pc = "loop" /\ idx <= Len(sorted) /\ sorted[idx].side = "BUY")
            => LET fill == sorted[idx]
                   key == KeyOfFill(fill)
                   before == LotsGet(lots, key)
               IN /\ trades' = trades
                  /\ missingCostMap' = missingCostMap
                  /\ result' = result
                  /\ DOMAIN lots' = DOMAIN lots \cup {key}
                  /\ \A k \in DOMAIN lots : k # key => lots'[k] = lots[k]
                  /\ Len(lots'[key]) = Len(before) + 1
                  /\ SubSeq(lots'[key], 1, Len(before)) = before
                  /\ LotData(lots'[key][Len(before) + 1])
                        = [qty |-> fill.qty, price |-> fill.price,
                           fees |-> OrNull(fill.fees)]]_vars

\* a returned run of a BUY with fees 100 and a SELL its lot covers: the P&L
\* 19700 holds no part of the BUY's fees
C29_Witness ==
    /\ pc = "done"
    /\ Len(fills) = 2
    /\ fills[1].side = "BUY" /\ fills[1].fees = Num(100)
    /\ fills[2].side = "SELL"
    /\ Len(result.trades) = 1
    /\ result.trades[1].realizedPnl = Num(19700)

\* Quantity the SELL of log entry j took out of its queue
RECURSIVE TakenSum(_)
TakenSum(taken) == IF taken = <<>> THEN 0 ELSE Head(taken).qty + TakenSum(Tail(taken))

TakenQty(j) == TakenSum(matchLog[j].taken)

UnderMatched(j) == TakenQty(j) < SellOf(j).qty

\* No BUY of the key of log entry j is processed between the SELLs of entries j and n
NoBuyBetween(j, n) ==
    \A i \in (matchLog[j].at + 1)..(matchLog[n].at - 1) :
        ~(sorted[i].side = "BUY" /\ KeyOfFill(sorted[i]) = matchLog[j].key)

\* C30: the matching of a SELL ends with the SELL fully matched or with the
\* queue of its key empty; an under-matched SELL leaves that queue empty, and
\* every later SELL of the key reached with no BUY of the key in between meets
\* an empty queue, takes nothing, and has its whole quantity unmatched (no
\* average buy price, and no P&L with reason UNKNOWN_COST when it sells anything).
C30_StopsWhenMatchedOrEmpty ==
    Processed =>
        \A j \in 1..Len(matchLog) :
            /\ TakenQty(j) = SellOf(j).qty \/ QueueAfter(j) = <<>>
            /\ TakenQty(j) <= SellOf(j).qty \/ SellOf(j).qty < 0
            /\ UnderMatched(j) =>
                   /\ QueueAfter(j) = <<>>
                   /\ \A n \in (j + 1)..Len(matchLog) :
                          (matchLog[n].key = matchLog[j].key /\ NoBuyBetween(j, n)) =>
                              /\ QueueBefore(n) = <<>>
                              /\ matchLog[n].taken = <<>>
                              /\ QueueAfter(n) = <<>>
                              /\ ShortOf(n) = SellOf(n).qty
                              /\ trades[n].buyPriceAvg = NullQuot
                              /\ SellOf(n).qty > 0 =>
                                     /\ trades[n].realizedPnl = Null
                                     /\ trades[n].reasonIfNull = Str("UNKNOWN_COST")

\* A first SELL that empties a queue of two lots and is still short, followed
\* by a second SELL of the key that finds nothing
C30_Witness ==
    /\ pc = "done"
    /\ Len(matchLog) >= 2
    /\ Len(matchLog[1].taken) >= 1
    /\ UnderMatched(1)
    /\ matchLog[2].key = matchLog[1].key
    /\ NoBuyBetween(1, 2)
    /\ SellOf(2).qty > 0
    /\ trades[2].reasonIfNull = Str("UNKNOWN_COST")

\* Number of double quotes of line before position i
QuotesBefore(line, i) == Cardinality({j \in 1..(i - 1) : line[j] = "\""})

\* The commas of line that lie outside quoted sections: those with an even
\* number of double quotes before them
OutsideCommas(line) ==
    {i \in 1..Len(line) : line[i] = "," /\ QuotesBefore(line, i) % 2 = 0}

\* First position of the run of double quotes that position i lies in
RunStart(line, i) ==
    CHOOSE a \in 1..i : /\ \A j \in a..i : line[j] = "\""
                        /\ a = 1 \/ line[a - 1] # "\""

\* The character at i is part of its field: every character but a double quote,
\* and of a run of double quotes the second of each pair that follows the
\* opening quote, if the run opens a quoted section
KeptInField(line, i) ==
    \/ line[i] # "\""
    \/ LET a == RunStart(line, i)
           opening == IF QuotesBefore(line, a) % 2 = 0 THEN 1 ELSE 0
       IN i - a >= opening /\ (i - a - opening) % 2 = 1

RECURSIVE KeptChars(_, _, _)
KeptChars(line, lo, hi) ==
    IF lo > hi THEN <<>>
    ELSE (IF KeptInField(line, lo) THEN <<line[lo]>> ELSE <<>>)
             \o KeptChars(line, lo + 1, hi)

\* The k-th of the positions cs, in ascending order; 0 for k = 0 and past the
\* end of line for k beyond the last
CommaAt(line, cs, k) ==
    IF k = 0 THEN 0
    ELSE IF k > Cardinality(cs) THEN Len(line) + 1
    ELSE CHOOSE i \in cs : Cardinality({j \in cs : j < i}) = k - 1

\* The fields a line has by the rule of the quoted sections
QuotedFields(line) ==
    LET cs == OutsideCommas(line)
    IN [k \in 1..(Cardinality(cs) + 1) |->
           trim(KeptChars(line, CommaAt(line, cs, k - 1) + 1, CommaAt(line, cs, k) - 1))]

Trimmed(str) == str = <<>> \/ (~IsSpace(str[1]) /\ ~IsSpace(str[Len(str)]))

\* The lines parseCSV hands to parseCSVLine: every line as split for the header
\* search and every line trimmed for the data loop
LinesOfText == LET ls == split(text)
               IN {ls[n] : n \in 1..Len(ls)} \cup {trim(ls[n]) : n \in 1..Len(ls)}

\* C31: parseCSVLine splits a line at exactly the commas outside quoted
\* sections: it returns one field more than there are such commas; each field is
\* the trimmed text between two of them with the delimiting quotes dropped, the
\* commas inside quotes kept and each doubled quote of a quoted section turned
\* into one quote, for every line of a text the parser has gone through; and
\* the header row the parser keeps is split that way.
C31_QuotedSplit ==
    /\ parser.pc = "done" =>
           \A line \in LinesOfText :
               LET fields == parseCSVLine(line)
               IN /\ Len(fields) = Cardinality(OutsideCommas(line)) + 1
                  /\ fields = QuotedFields(line)
                  /\ \A k \in 1..Len(fields) : Trimmed(fields[k])
    /\ (parser.pc # "start" /\ parser.headerIndex >= 0) =>
           parser.headers = QuotedFields(parser.lines[parser.headerIndex + 1])

\* A parse under a quoted header that accepted a row with a comma inside quotes
\* in its symbol code and in its price, and a row with a doubled quote
C31_Witness ==
    /\ parser.pc = "done"
    /\ parser.headerIndex = 0
    /\ parser.headers # <<>>
    /\ parser.headers[1] = TradeDateCol
    /\ Head(parser.lines[1]) = "\""
    /\ \E n \in 1..Len(parser.result.fills) :
           /\ parser.result.fills[n].symbolCode = Chars("12,34")
           /\ parser.result.fills[n].price = 2000
    /\ \E n \in 1..Len(parser.result.fills) :
           parser.result.fills[n].symbolCode = Chars("a\"b")

\* The lines (0-based) that have all four required column names
HeaderCandidates == {j \in 0..(Len(parser.lines) - 1) : HasAllNames(parser.lines[j + 1])}

\* The non-blank lines (0-based) after line h
RowsAfter(h) == {j \in (h + 1)..(Len(parser.lines) - 1) : ~IsBlank(j)}

\* C32: the header is the first line that has all four required column names,
\* wherever in the line they stand (none when no line has them); no error, no
\* fill and no count comes from a line before it or from the header itself;
\* every non-blank line after it that the loop has dealt with is counted once in
\* totalRows and leaves exactly one error or one fill, a blank line leaves
\* nothing; and the returned totalRows is the number of non-blank lines after
\* the header.
C32_HeaderSearch ==
    parser.pc # "start" =>
        LET candidates == HeaderCandidates
            rows == RowsAfter(parser.headerIndex)
        IN /\ candidates = {} <=> parser.headerIndex = -1
           /\ candidates # {} =>
                  /\ parser.headerIndex \in candidates
                  /\ \A j \in candidates : parser.headerIndex <= j
                  /\ parser.headers = parseCSVLine(parser.lines[parser.headerIndex + 1])
                  /\ \A j \in 0..parser.headerIndex : ErrorsAt(j) = {} /\ FillsAt(j) = {}
                  /\ parser.totalRows = Cardinality(ProcessedLines \cap rows)
                  /\ \A j \in ProcessedLines :
                         Cardinality(ErrorsAt(j)) + Cardinality(FillsAt(j))
                             = IF IsBlank(j) THEN 0 ELSE 1
                  /\ parser.pc = "done" =>
                         /\ parser.result.totalRows = Cardinality(rows)
                         /\ Len(parser.result.fills) + Len(parser.result.errors)
                                = Cardinality(rows)

\* A finished parse whose header, with the names out of order, is the second
\* line, after a line that has three of the names, and is followed by a blank
\* line and by a row that is accepted
C32_Witness ==
    /\ parser.pc = "done"
    /\ parser.lines = <<PartHeaderLine, ShuffledHeaderLine, Chars(" "), ShuffledRow>>
    /\ parser.headerIndex = 1
    /\ parser.result.totalRows = 1
    /\ Len(parser.result.fills) = 1
    /\ parser.result.fills[1].qty = 100
    /\ parser.result.fills[1].price = 1000

Contains(str, c) == \E n \in 1..Len(str) : str[n] = c

\* The side that the transaction-type value calls for
SideFor(tradeStr) ==
    IF Contains(tradeStr, "kai") THEN "BUY"
    ELSE IF Contains(tradeStr, "uri") /\ ~Contains(tradeStr, "kai") THEN "SELL"
    ELSE "OTHER"

\* Line j passes the five checks of the data loop
PassesChecks(j) ==
    LET l == LineOf(j)
    IN ~l.blank /\ ~l.columnsBad /\ ~l.dateBad /\ ~l.symbolBad /\ ~l.qtyBad /\ ~l.priceBad

\* C33: the fill of a line has side BUY when the transaction-type cell of the
\* line has the buy marker, SELL when it has the sell marker and not the buy
\* marker, OTHER otherwise (a missing cell counting as empty); and every line
\* that passes the checks has its fill, of whichever side, in fills and, once the
\* parse is done, in the fills returned.
C33_Sides ==
    InDataLoop =>
        \A j \in ProcessedLines :
            /\ \A n \in FillsAt(j) : parser.fills[n].side = SideFor(CellOf(j, TradeCol))
            /\ PassesChecks(j) =>
                   /\ Cardinality(FillsAt(j)) = 1
                   /\ parser.pc = "done" =>
                          \E n \in 1..Len(parser.result.fills) :
                              /\ parser.result.fills[n].line = j + 1
                              /\ parser.result.fills[n].side = SideFor(CellOf(j, TradeCol))

\* A finished parse that returns a fill of side OTHER for a transaction type
\* with neither marker and a fill of side BUY for one with both markers
C33_Witness ==
    /\ parser.pc = "done"
    /\ Len(parser.result.fills) = 2
    /\ parser.lines[2] = DataRow("2024/01/15", "1", <<"nyuu", "kin">>, "1", "1", "0", "0")
    /\ parser.lines[3] = DataRow("2024/01/15", "1", <<"uri", "kai">>, "1", "1", "0", "0")
    /\ parser.result.fills[1].side = "OTHER"
    /\ parser.result.fills[2].side = "BUY"

\* The three equations between the counts, the fills and the errors of r
CountsAgree(r) ==
    /\ r.totalRows = r.successRows + r.failedRows
    /\ Len(r.fills) = r.successRows
    /\ Len(r.errors) = r.failedRows

\* C34: once a header is found, after every row the loop has accepted, rejected
\* or skipped, totalRows = successRows + failedRows, the number of fills is
\* successRows and the number of errors is failedRows; the result returned
\* satisfies the same three equations.
C34_CountsAgree ==
    InDataLoop =>
        /\ CountsAgree(parser)
        /\ parser.pc = "done" => CountsAgree(parser.result)

\* A result of three data rows of which two were accepted and one was rejected
C34_Witness ==
    /\ parser.pc = "done"
    /\ parser.headerIndex >= 0
    /\ parser.result.totalRows = 3
    /\ parser.result.successRows = 2
    /\ parser.result.failedRows = 1
    /\ parser.errors[1].line < parser.fills[2].line

\* The key of an opening position
KeyOfOpening(op) == makeKey(op.symbolCode, Str(op.accountType))

\* Quantity of the opening positions of a key
OpeningQty(key) ==
    SumSeq([n \in 1..Len(openingPositions) |->
               IF KeyOfOpening(openingPositions[n]) = key
               THEN openingPositions[n].qty ELSE 0])

\* Quantity of the BUY fills of a key among the fills processed so far
BoughtQty(key) ==
    SumSeq([n \in 1..(idx - 1) |->
               IF sorted[n].side = "BUY" /\ KeyOfFill(sorted[n]) = key
               THEN sorted[n].qty ELSE 0])

\* Quantity the SELLs of a key processed so far were matched with
MatchedQty(key) ==
    SumSeq([j \in 1..Len(matchLog) |-> IF matchLog[j].key = key THEN TakenQty(j) ELSE 0])

PositiveInputs ==
    /\ \A n \in 1..Len(fills) : fills[n].qty > 0
    /\ \A n \in 1..Len(openingPositions) : openingPositions[n].qty > 0

KeysInPlay ==
    DOMAIN lots \cup {KeyOfFill(sorted[n]) : n \in 1..Len(sorted)}
        \cup {KeyOfOpening(openingPositions[n]) : n \in 1..Len(openingPositions)}

\* C35: with positive input quantities, after every processed fill every queued
\* lot has a quantity > 0; for every key the quantity of its opening positions
\* plus that of its BUY fills processed so far equals the quantity its SELLs
\* processed so far were matched with plus the quantity left in its queue; and
\* no SELL was matched with more than its queue held or than it sold.
C35_LotsConserved ==
    (Processed /\ PositiveInputs) =>
        /\ \A key \in KeysInPlay :
               /\ \A n \in 1..Len(LotsGet(lots, key)) : lots[key][n].qty > 0
               /\ OpeningQty(key) + BoughtQty(key)
                      = MatchedQty(key) + SumQty(LotsGet(lots, key))
        /\ \A j \in 1..Len(matchLog) :
               /\ TakenQty(j) <= SumQty(QueueBefore(j))
               /\ TakenQty(j) <= SellOf(j).qty
               /\ SumQty(QueueAfter(j)) = SumQty(QueueBefore(j)) - TakenQty(j)

\* A run with an opening position and a BUY of one key in which a SELL took a
\* whole lot and part of the next, leaving a lot in the queue
C35_Witness ==
    /\ pc = "done"
    /\ Len(openingPositions) >= 1
    /\ Len(matchLog) >= 1
    /\ Len(matchLog[1].taken) = 2
    /\ QueueAfter(1) # <<>>
    /\ QueueAfter(1)[1].qty < QueueBefore(1)[2].qty
    /\ BoughtQty(matchLog[1].key) > 0
    /\ OpeningQty(matchLog[1].key) > 0

\* Quantity taken from the lot of opening position m by the SELLs of log entries
\* 1..(j - 1) and by the first i - 1 matches of entry j
TakenFromBefore(m, j, i) ==
    SumSeq([h \in 1..(j - 1) |->
               SumSeq([g \in 1..Len(matchLog[h].taken) |->
                          IF matchLog[h].taken[g].src = <<"op", m>>
                          THEN matchLog[h].taken[g].qty ELSE 0])])
    + SumSeq([g \in 1..(i - 1) |->
                 IF matchLog[j].taken[g].src = <<"op", m>>
                 THEN matchLog[j].taken[g].qty ELSE 0])

\* C36: the lots of the opening positions of one key stand in their queue in
\* reverse list order, the position listed last at the front, when the seeding
\* is done and ever after; so a SELL takes from the lot of an opening position
\* only when every opening position of that key listed after it is used up.
C36_OpeningsReversed ==
    /\ pc # "start" =>
           \A k \in DOMAIN lots :
               \A a, b \in 1..Len(lots[k]) :
                   (a < b /\ lots[k][a].src[1] = "op" /\ lots[k][b].src[1] = "op")
                       => lots[k][a].src[2] > lots[k][b].src[2]
    /\ pc = "seeded" =>
           \A n \in 1..Len(openingPositions) :
               LET key == KeyOfOpening(openingPositions[n])
                   later == {m \in (n + 1)..Len(openingPositions) :
                                KeyOfOpening(openingPositions[m]) = key}
               IN /\ Len(LotsGet(lots, key)) > Cardinality(later)
                  /\ lots[key][Cardinality(later) + 1].src = <<"op", n>>
    /\ \A j \in 1..Len(matchLog) :
           \A i \in 1..Len(matchLog[j].taken) :
               LET src == matchLog[j].taken[i].src
               IN src[1] = "op" =>
                      \A m \in (src[2] + 1)..Len(openingPositions) :
                          KeyOfOpening(openingPositions[m]) = matchLog[j].key
                              => TakenFromBefore(m, j, i) = openingPositions[m].qty

\* Two opening positions of one key at different costs and a SELL that takes
\* the whole lot of the second and part of the lot of the first
C36_Witness ==
    /\ pc = "done"
    /\ Len(openingPositions) = 2
    /\ KeyOfOpening(openingPositions[1]) = KeyOfOpening(openingPositions[2])
    /\ openingPositions[1].avgCost # openingPositions[2].avgCost
    /\ Len(matchLog) >= 1
    /\ Len(matchLog[1].taken) = 2
    /\ matchLog[1].taken[1].src = <<"op", 2>>
    /\ matchLog[1].taken[1].qty = openingPositions[2].qty
    /\ matchLog[1].taken[2].src = <<"op", 1>>

\* The opening position of entry e with a quantity of its own
PartOf(e, qty, c) == [PositionFor(e, c) EXCEPT !.qty = qty]

\* C37: when a run has returned a missing-cost entry with shortQty S > 0 for a
\* key, the run on the same fills with one opening position of that key added,
\* of any quantity q with 0 < q < S and any positive average cost, returns at
\* least one SELL of the key with no P&L and reason UNKNOWN_COST, and a
\* missing-cost entry of S - q for the key.
C37_ShortQtyLeast ==
    pc = "done" =>
        \A m \in 1..Len(result.missingCostSymbols) :
            LET e == result.missingCostSymbols[m]
                k == EntryKey(e)
            IN /\ e.shortQty > 0
               /\ \A q \in 1..(e.shortQty - 1) :
                      \A c \in AvgCosts :
                          LET r == calculateRealizedPnl(
                                       fills, Append(openingPositions, PartOf(e, q, c)))
                          IN /\ \E t \in 1..Len(r.trades) :
                                    /\ makeKey(r.trades[t].symbolCode,
                                               r.trades[t].accountType) = k
                                    /\ r.trades[t].realizedPnl = Null
                                    /\ r.trades[t].reasonIfNull = Str("UNKNOWN_COST")
                             /\ \E x \in 1..Len(r.missingCostSymbols) :
                                    /\ EntryKey(r.missingCostSymbols[x]) = k
                                    /\ r.missingCostSymbols[x].shortQty = e.shortQty - q

\* A BUY of 1 between two SELLs of 2 of its key, shortQty 3: with an opening
\* position of 2 added the first SELL has a P&L and the second has not
C37_Witness ==
    /\ pc = "done"
    /\ Len(sorted) = 3
    /\ <<sorted[1].side, sorted[2].side, sorted[3].side>> = <<"SELL", "BUY", "SELL">>
    /\ <<sorted[1].qty, sorted[2].qty, sorted[3].qty>> = <<2, 1, 2>>
    /\ openingPositions = <<>>
    /\ Len(result.missingCostSymbols) = 1
    /\ result.missingCostSymbols[1].shortQty = 3
    /\ LET r == calculateRealizedPnl(
                    fills, <<PartOf(result.missingCostSymbols[1], 2, 1)>>)
       IN /\ r.trades[1].realizedPnl.k = "number"
          /\ r.trades[2].reasonIfNull = Str("UNKNOWN_COST")
          /\ r.missingCostSymbols[1].shortQty = 1

\* The files of the invocations 1..n, in the order of the calls
RECURSIVE FilesOfLoads(_)
FilesOfLoads(n) == IF n = 0 THEN <<>> ELSE FilesOfLoads(n - 1) \o loads[n].files

\* The fills of a list of files, one file after the other
RECURSIVE FillsOfFiles(_)
FillsOfFiles(files) ==
    IF files = <<>> THEN <<>> ELSE Head(files).result.fills \o FillsOfFiles(Tail(files))

\* How often x is in a list
Count(xs, x) == Cardinality({n \in 1..Len(xs) : xs[n] = x})

\* Two lists hold the same things, each as often in the one as in the other
SameBag(xs, ys) ==
    /\ Len(xs) = Len(ys)
    /\ \A n \in 1..Len(xs) : Count(xs, xs[n]) = Count(ys, xs[n])

\* Every invocation has completed and nothing was cleared
AllLoaded ==
    /\ Len(loads) >= 2
    /\ \A n \in 1..Len(loads) : loads[n].pc = "done"
    /\ \A n \in 1..Len(loadLog) : loadLog[n].op = "load"

\* C38: once two or more invocations of handleFilesLoaded, their file reads
\* interleaved in any way, have all completed (and nothing was cleared), the
\* fills state holds every fill of every file of every invocation exactly once,
\* in ascending order of the calendar trade dates; parseResults holds one result
\* per file; and the number of fills is the sum of successRows over parseResults.
C38_NoLostFills ==
    AllLoaded =>
        LET files == FilesOfLoads(Len(loads))
        IN /\ SameBag(app.fills, FillsOfFiles(files))
           /\ \A a, b \in 1..Len(app.fills) :
                  a < b => DateValue(app.fills[a].tradeDate, 0)
                              <= DateValue(app.fills[b].tradeDate, 0)
           /\ SameBag(app.parseResults, [n \in 1..Len(files) |-> files[n].result])
           /\ Len(app.fills)
                  = SumSeq([n \in 1..Len(app.parseResults) |->
                               app.parseResults[n].successRows])

\* Position in loadLog of the last handleClear, 0 when there was none
LastClear ==
    LET cs == {i \in 1..Len(loadLog) : loadLog[i].op = "clear"}
    IN IF cs = {} THEN 0 ELSE CHOOSE i \in cs : \A j \in cs : j <= i

\* The files loaded since the last handleClear, in the order they took effect
FilesSinceClear ==
    [i \in 1..(Len(loadLog) - LastClear) |-> loadLog[LastClear + i].file]

IsClearStep == Len(loadLog') = Len(loadLog) + 1 /\ loadLog'[Len(loadLog')].op = "clear"

Completes(n) == n \in 1..Len(loads) /\ loads[n].pc = "await" /\ loads'[n].pc = "done"

\* C39: a handleClear empties fills and parseResults and changes nothing else:
\* the opening positions and the filters stay, and every invocation of
\* handleFilesLoaded that awaits a read goes on awaiting it; when such an
\* invocation completes, whenever that is, its parse results are appended to
\* parseResults and its fills are merged into fills as they then are; so the
\* state always holds exactly what was loaded since the last handleClear.
C39_ClearKeepsLoads ==
    /\ [](/\ app.parseResults = [i \in 1..Len(FilesSinceClear) |-> FilesSinceClear[i].result]
          /\ SameBag(app.fills, FillsOfFiles(FilesSinceClear)))
    /\ [][/\ IsClearStep =>
                 /\ app'.fills = <<>> /\ app'.parseResults = <<>>
                 /\ app'.openingPositions = app.openingPositions
                 /\ app'.filters = app.filters
                 /\ loads' = loads
          /\ \A n \in 1..MaxLoads :
                 Completes(n) =>
                     /\ app'.parseResults
                            = app.parseResults
                                  \o [i \in 1..Len(loads[n].files) |-> loads[n].files[i].result]
                     /\ SameBag(app'.fills, app.fills \o FillsOfFiles(loads[n].files))
                     /\ app'.openingPositions = app.openingPositions
                     /\ app'.filters = app.filters]_vars

\* The invocation called first awaited its read while the second completed and
\* while handleClear ran; it completed afterwards, and the state, with a filter
\* and an opening position set, holds its fills and parse results and nothing
\* of what was cleared
C39_Witness ==
    /\ Len(loadLog) = 3
    /\ loadLog[1].op = "load" /\ loadLog[1].by = 2
    /\ loadLog[2].op = "clear"
    /\ loadLog[3].op = "load" /\ loadLog[3].by = 1
    /\ loadLog[3].file # loadLog[1].file
    /\ app.filters # NoFilters
    /\ app.openingPositions # <<>>
    /\ app.fills = loadLog[3].file.result.fills
    /\ app.parseResults = <<loadLog[3].file.result>>

\* The positions of the fills in the state that no filter in force rejects
KeptFills == {n \in 1..Len(app.fills) : keepsFill(app.fills[n], app.filters)}

\* C40: the engine is given the fills that the filters in force do not reject,
\* in the order of the state, and every fill of the state when all filters are
\* empty; it returns one trade per SELL given to it; and a SELL given to it
\* whose key has no BUY among the fills given and no opening position has
\* reason UNKNOWN_COST and no P&L, whatever BUYs of the key the filters reject.
C40_FilterBeforeMatch ==
    LET given == filteredFills(app)
        r == viewResult(app)
    IN /\ Len(given) = Cardinality(KeptFills)
       /\ \A n \in 1..Len(given) :
              /\ \E m \in KeptFills : app.fills[m] = given[n]
              /\ Count(given, given[n]) = Cardinality({m \in KeptFills : app.fills[m] = given[n]})
       /\ app.filters = NoFilters => given = app.fills
       /\ Len(r.trades) = Cardinality({n \in KeptFills : app.fills[n].side = "SELL"})
       /\ \A t \in 1..Len(r.trades) :
              LET key == makeKey(r.trades[t].symbolCode, r.trades[t].accountType)
              IN (/\ \A n \in KeptFills :
                         ~(app.fills[n].side = "BUY" /\ KeyOfFill(app.fills[n]) = key)
                  /\ \A n \in 1..Len(app.openingPositions) :
                         KeyOfOpening(app.openingPositions[n]) # key)
                     => /\ r.trades[t].realizedPnl = Null
                        /\ r.trades[t].reasonIfNull = Str("UNKNOWN_COST")

\* The state holds a BUY and a SELL of one key; the filter (a symbol search that
\* only the SELL's name answers) rejects the BUY and keeps the SELL, and the one
\* trade given has reason UNKNOWN_COST, while without filter it has a P&L
C40_Witness ==
    /\ Len(app.fills) = 2
    /\ app.fills[1].side = "BUY" /\ app.fills[2].side = "SELL"
    /\ KeyOfFill(app.fills[1]) = KeyOfFill(app.fills[2])
    /\ app.filters.symbolSearch = "2M"
    /\ app.openingPositions = <<>>
    /\ KeptFills = {2}
    /\ Len(viewResult(app).trades) = 1
    /\ viewResult(app).trades[1].reasonIfNull = Str("UNKNOWN_COST")
    /\ viewResult([app EXCEPT !.filters = NoFilters]).trades[1].realizedPnl = Num(2)

====
